---- MODULE Spec2Model ----
(***************************************************************************)
(* Turn orchestration of the real-estate chat agent.                       *)
(*                                                                         *)
(* A user message is a sequence of tokens.  A token is a record            *)
(* [w, n]: a lower-case word (n = 0), a bare number (w = "#"), or an       *)
(* amount written with the million suffix, such as "5m" (w = "#m").        *)
(* The regular expressions and substring tests of the source are           *)
(* translated to tests on token sequences.  Optional values are encoded    *)
(* as sequences: None is << >> and a present value v is << v >>.           *)
(* Areas are fixed-point numbers, in hundredths of a square metre.         *)
(***************************************************************************)
EXTENDS Integers, Sequences, FiniteSets, TLC

VARIABLES
    state,      \* the stored ConversationState of the conversation (conv.state)
    turn,       \* number of turns handled so far
    last,       \* what the last turn did: its message, branch, reply and effects
    rag_state,  \* the RagConversationState row of the ChatOrchestrator's conversation
    rag_msgs,   \* its RagMessage rows, oldest first
    rag_last,   \* what the last ChatOrchestrator turn did
    convs,      \* the conversations_v2 table: the stored state of each conversation, by id
    reqs        \* the POST /chat requests in flight, each with its own database session

vars == <<state, turn, last, rag_state, rag_msgs, rag_last, convs, reqs>>

----------------------------------------------------------------------------
(* Bounds of the model *)

MaxTurns == 3
MaxRagTurns == 4
\* conversations of the table, and turns of one requester
MaxConvs == 2
MaxReqTurns == 1

\* turns of a long conversation with the ChatOrchestrator: its log outgrows the
\* ten messages the orchestrator reads back
MaxLongTurns == 7

----------------------------------------------------------------------------
(* Optional values and tokens *)

None == <<>>
Some(v) == <<v>>
Val(o) == o[1]

W(s) == [w |-> s, n |-> 0]
N(k) == [w |-> "#", n |-> k]
M(k) == [w |-> "#m", n |-> k]

IsNum(t) == t.w = "#"
IsMoney(t) == t.w = "#m"

HasWord(m, s) == \E i \in 1..Len(m) : m[i].w = s
HasAnyWord(m, S) == \E i \in 1..Len(m) : m[i].w \in S

\* the words of phrase p occur consecutively in m
HasPhrase(m, p) ==
    \E i \in 1..Len(m) :
        /\ i + Len(p) - 1 <= Len(m)
        /\ \A j \in 1..Len(p) : m[i + j - 1].w = p[j]

HasAnyPhrase(m, P) == \E p \in P : HasPhrase(m, p)

Min2(a, b) == IF a <= b THEN a ELSE b
Max2(a, b) == IF a >= b THEN a ELSE b

SetMin(S) == CHOOSE x \in S : \A y \in S : x <= y

RECURSIVE SelectSeq2(_, _)
\* the elements of s that are members of the set S, in order
SelectSeq2(s, S) ==
    IF s = <<>> THEN <<>>
    ELSE IF Head(s) \in S THEN <<Head(s)>> \o SelectSeq2(Tail(s), S)
         ELSE SelectSeq2(Tail(s), S)

----------------------------------------------------------------------------
(* services/conversation_state.py *)

EmptyPatch == [k \in {} |-> 0]

DEFAULT_STATE ==
    [location |-> None, budget_min |-> None, budget_max |-> None,
     unit_type |-> None, area_min |-> None, area_max |-> None,
     confirmed |-> Some(FALSE), chosen_option |-> None,
     last_results |-> <<>>, last_project_ids |-> <<>>]

\* keys k with k.startswith("__") and k.endswith("__")
InternalKeys == {"__did_reset__"}

\* faulty variant: a None value in the patch is skipped instead of clearing the key
merge_state_SkipNone(old, patch) ==
    LET keys == {k \in DOMAIN patch : k \notin InternalKeys /\ patch[k] # None}
    IN [k \in (DOMAIN old) \cup keys |-> IF k \in keys THEN patch[k] ELSE old[k]]

\* faulty variant: the feature flags of the patch are added to the stored ones
merge_state_AddFeatures(old, patch) ==
    [k \in (DOMAIN old) \cup (DOMAIN patch \ InternalKeys) |->
        IF k \in DOMAIN patch \ InternalKeys
        THEN (IF k = "features" /\ k \in DOMAIN old
              THEN Some(Val(old[k]) \cup Val(patch[k])) ELSE patch[k])
        ELSE old[k]]

\* faulty variant: the internal flag keys of the patch are stored like any key
merge_state_KeepFlags(old, patch) ==
    [k \in (DOMAIN old) \cup (DOMAIN patch) |-> IF k \in DOMAIN patch THEN patch[k] ELSE old[k]]

\* faulty variant: a list value of the patch is appended to the stored list
\* instead of replacing it
merge_state_Extend(old, patch) ==
    LET keys == {k \in DOMAIN patch : k \notin InternalKeys}
        lists == {"last_results", "last_project_ids"}
    IN [k \in (DOMAIN old) \cup keys |->
           IF k \in keys
           THEN IF k \in lists /\ k \in DOMAIN old THEN old[k] \o patch[k] ELSE patch[k]
           ELSE old[k]]

merge_state(old, patch) ==
    LET keys == {k \in DOMAIN patch : k \notin InternalKeys}
    IN [k \in (DOMAIN old) \cup keys |-> IF k \in keys THEN patch[k] ELSE old[k]]

\* dict.get(key): None when the key is absent
Get(d, k) == IF k \in DOMAIN d THEN d[k] ELSE None

\* dict.setdefault(key, v)
SetDefault(d, k, v) == IF k \in DOMAIN d THEN d ELSE d @@ (k :> v)

\* dict.pop(key, default): the dict without the key
Pop(d, k) == [x \in DOMAIN d \ {k} |-> d[x]]

\* dict.update(other): the keys of other overwrite
Update(d, other) == other @@ d

----------------------------------------------------------------------------
(* services/selection.py *)

\* _ORDINAL_MAP, English entries, in dictionary order
OrdinalWords ==
    << <<"first", 1>>, <<"1st", 1>>, <<"second", 2>>, <<"2nd", 2>>,
       <<"third", 3>>, <<"3rd", 3>>, <<"fourth", 4>>, <<"4th", 4>>,
       <<"fifth", 5>>, <<"5th", 5>> >>

SelectVerbs == {"option", "choose", "pick", "select", "show"}

\* Option index (0-based) of a message, or None
extract_option_index(m) ==
    LET ords == {i \in 1..Len(OrdinalWords) : HasWord(m, OrdinalWords[i][1])}
        verbAt == {i \in 1..(Len(m) - 1) : m[i].w \in SelectVerbs /\ IsNum(m[i + 1])}
    IN IF ords # {} THEN Some(OrdinalWords[SetMin(ords)][2] - 1)
       ELSE IF verbAt # {}
            THEN (IF m[SetMin(verbAt) + 1].n - 1 >= 0
                  THEN Some(m[SetMin(verbAt) + 1].n - 1) ELSE None)
       ELSE IF Len(m) = 1 /\ IsNum(m[1])
            THEN (IF m[1].n - 1 >= 0 THEN Some(m[1].n - 1) ELSE None)
       ELSE None

----------------------------------------------------------------------------
(* Substring tests ("x in t") on the text of a message *)

\* <<s, w>>: the vocabulary word w properly contains the trigger s
Inside ==
    {<<"set", "reset">>, <<"to", "townhouse">>,
     <<"m", "compare">>, <<"m", "more">>, <<"m", "smaller">>, <<"m", "apartment">>,
     <<"m", "from">>, <<"m", "me">>, <<"m", "sqm">>, <<"m", "gamma">>,
     <<"m", "bedrooms">>}

TokHas(t, s) ==
    \/ t.w = s
    \/ <<s, t.w>> \in Inside
    \/ (t.w = "#m" /\ s = "m")

\* s in t, for a trigger s without a space
Contains(m, s) == \E i \in 1..Len(m) : TokHas(m[i], s)
ContainsAny(m, S) == \E s \in S : Contains(m, s)

\* "m " in t: a token that ends in the letter m and is followed by another one
EndsInM(t) == t.w \in {"from", "sqm", "#m"}
ContainsMSpace(m) == \E i \in 1..(Len(m) - 1) : EndsInM(m[i])

----------------------------------------------------------------------------
(* services/preference_parser.py *)

\* KNOWN_LOCATIONS of the vocabulary, sorted by length, longest first
KNOWN_LOCATIONS == << <<"new", "cairo">>, <<"zayed">> >>

_normalize_location(loc) ==
    IF loc = <<"zayed">> THEN "Zayed"
    ELSE IF loc = <<"new", "cairo">> THEN "New Cairo"
    ELSE "Other"

\* Direct containment, longest location first.  The fuzzy steps (difflib) find
\* nothing for the words of the vocabulary and are not modelled.
_best_location_match(m) ==
    LET hits == {i \in 1..Len(KNOWN_LOCATIONS) : HasPhrase(m, KNOWN_LOCATIONS[i])}
    IN IF hits = {} THEN None ELSE Some(KNOWN_LOCATIONS[SetMin(hits)])

PreferenceSplitWords == {"or", "but", "preferably", "prefer", "mainly", "mostly", "ideally"}

RECURSIVE _extract_primary_location(_)
\* the location of the first segment (split at preference words) that has one
_extract_primary_location(m) ==
    LET cuts == {i \in 1..(Len(m) - 1) : m[i].w \in PreferenceSplitWords}
    IN IF cuts = {} THEN _best_location_match(m)
       ELSE LET c == SetMin(cuts)
                head == _best_location_match(SubSeq(m, 1, c - 1))
            IN IF head # None THEN head
               ELSE _extract_primary_location(SubSeq(m, c + 1, Len(m)))

_parse_location(m) ==
    LET primary == _extract_primary_location(m)
        best == _best_location_match(m)
    IN IF m = <<>> THEN None
       ELSE IF primary # None THEN Some(_normalize_location(Val(primary)))
       ELSE IF best # None THEN Some(_normalize_location(Val(best)))
       ELSE None

\* UNIT_KEYWORDS of the vocabulary, in dictionary order
UNIT_KEYWORDS ==
    << <<"Apartment", {"apartment", "apartments", "apt", "flat"}>>,
       <<"Chalet", {"chalet", "chalets"}>>,
       <<"Villa", {"villa", "villas"}>>,
       <<"Town House", {"townhouse"}>> >>

BedroomWords == {"bedroom", "bedrooms", "bed", "beds"}
CompoundUnitWords ==
    {"apartment", "apt", "flat", "villa", "chalet", "townhouse", "duplex", "penthouse", "studio"}

\* positions i of "<n> [bedroom] <unit>": the number, and where the unit word is
CompoundAt(m, units) ==
    {i \in 1..Len(m) :
        /\ IsNum(m[i])
        /\ \/ (i + 1 <= Len(m) /\ m[i + 1].w \in units)
           \/ (i + 2 <= Len(m) /\ m[i + 1].w \in BedroomWords /\ m[i + 2].w \in units)}

CompoundUnitWord(m, i) == IF m[i + 1].w \in BedroomWords THEN m[i + 2].w ELSE m[i + 1].w

CanonicalOf(S) ==
    LET hits == {k \in 1..Len(UNIT_KEYWORDS) : UNIT_KEYWORDS[k][2] \cap S # {}}
    IN IF hits = {} THEN None ELSE Some(UNIT_KEYWORDS[SetMin(hits)][1])

_parse_unit_type(m) ==
    LET comp == CompoundAt(m, CompoundUnitWords)
        fromComp == IF comp = {} THEN None
                    ELSE CanonicalOf({CompoundUnitWord(m, SetMin(comp))})
    IN IF fromComp # None THEN fromComp
       ELSE CanonicalOf({m[i].w : i \in 1..Len(m)})

\* the amount a token stands for, with the multiplier of its own unit suffix
IsAmount(t) == IsNum(t) \/ IsMoney(t)
Million(k) == k * 1000000

\* positions i of "<lead> A <mid> B" with A, B amounts
RangeAt(m, lead, mid) ==
    {i \in 1..Len(m) :
        /\ i + 3 <= Len(m)
        /\ m[i].w = lead /\ IsAmount(m[i + 1]) /\ m[i + 2].w = mid /\ IsAmount(m[i + 3])}

\* positions i of "A <mid> B"
RangeAt0(m, mid) ==
    {i \in 1..Len(m) :
        /\ i + 2 <= Len(m)
        /\ IsAmount(m[i]) /\ m[i + 1].w = mid /\ IsAmount(m[i + 2])}

\* the first number inherits the unit of the second, not the other way round
BudgetOfRange(a, b) ==
    LET unit1 == IF IsMoney(a) \/ IsMoney(b) THEN 1000000 ELSE 1
        unit2 == IF IsMoney(b) THEN 1000000 ELSE 1
        budget1 == a.n * unit1
        budget2 == b.n * unit2
    IN ("budget_min" :> Some(Min2(budget1, budget2))) @@
       ("budget_max" :> Some(Max2(budget1, budget2)))

_parse_budget_range(m) ==
    LET b1 == RangeAt(m, "between", "and")
        b2 == RangeAt(m, "from", "to")
        b3 == RangeAt0(m, "to")
    IN IF b1 # {} THEN Some(BudgetOfRange(m[SetMin(b1) + 1], m[SetMin(b1) + 3]))
       ELSE IF b2 # {} THEN Some(BudgetOfRange(m[SetMin(b2) + 1], m[SetMin(b2) + 3]))
       ELSE IF b3 # {} THEN Some(BudgetOfRange(m[SetMin(b3)], m[SetMin(b3) + 2]))
       ELSE None

BudgetLeadWords == {"budget", "around", "about"}

\* a bare number of six digits or more
IsBigNumber(t) == IsNum(t) /\ t.n >= 100000

_parse_budget_egp(m) ==
    LET led == {i \in 2..Len(m) : IsMoney(m[i]) /\ m[i - 1].w \in BudgetLeadWords}
        big == {i \in 1..Len(m) : IsBigNumber(m[i])}
        mon == {i \in 1..Len(m) : IsMoney(m[i])}
    IN IF led # {} THEN Some(Million(m[SetMin(led)].n))
       ELSE IF big # {} THEN Some(m[SetMin(big)].n)
       ELSE IF mon # {} THEN Some(Million(m[SetMin(mon)].n))
       ELSE None

_is_budget_max_indicator(m) ==
    \/ ContainsAny(m, {"maximum", "below", "under", "max"})
    \/ HasAnyPhrase(m, {<<"up", "to">>, <<"not", "more", "than">>, <<"no", "more", "than">>,
                        <<"at", "most">>, <<"less", "than">>})

_is_budget_min_indicator(m) ==
    \/ ContainsAny(m, {"from", "minimum", "above", "over", "min"})
    \/ HasAnyPhrase(m, {<<"starting", "from">>, <<"at", "least">>, <<"more", "than">>})

_is_area_max_indicator(m) == _is_budget_max_indicator(m)
_is_area_min_indicator(m) == _is_budget_min_indicator(m)

AreaUnitWords == {"sqm", "m2", "meter", "meters"}

\* an area of k square metres, as a fixed-point number
Sqm(k) == k * 100

\* "<n> sqm"
_parse_area_m2(m) ==
    LET at == {i \in 1..(Len(m) - 1) : IsNum(m[i]) /\ m[i + 1].w \in {"sqm", "m2"}}
    IN IF at = {} THEN None ELSE Some(Sqm(m[SetMin(at)].n))

\* the token after position i, skipping one optional area unit word
SkipUnit(m, i) == IF i <= Len(m) /\ m[i].w \in AreaUnitWords THEN i + 1 ELSE i

\* positions i of "<lead> A [sqm] <mid> B": lead at i (or A at i when lead = "").
\* The pattern ends at the digits of B, so B may carry a suffix ("5m"); A is
\* followed by a space or an area unit.
AreaRangeAt(m, lead, mid) ==
    {i \in 1..Len(m) :
        LET a == IF lead = "" THEN i ELSE i + 1
            c == SkipUnit(m, a + 1)
        IN /\ (lead = "" \/ m[i].w = lead)
           /\ a <= Len(m) /\ IsNum(m[a])
           /\ c + 1 <= Len(m) /\ m[c].w = mid /\ IsAmount(m[c + 1])}

AreaOfRange(m, i, lead) ==
    LET a == IF lead = "" THEN i ELSE i + 1
        c == SkipUnit(m, a + 1)
        val1 == Sqm(m[a].n)
        val2 == Sqm(m[c + 1].n)
    IN ("area_min" :> Some(Min2(val1, val2))) @@ ("area_max" :> Some(Max2(val1, val2)))

_parse_area_range(m) ==
    LET a1 == AreaRangeAt(m, "between", "and")
        a2 == AreaRangeAt(m, "from", "to")
        a3 == AreaRangeAt(m, "", "to")
    IN IF a1 # {} THEN Some(AreaOfRange(m, SetMin(a1), "between"))
       ELSE IF a2 # {} THEN Some(AreaOfRange(m, SetMin(a2), "from"))
       ELSE IF a3 # {} THEN Some(AreaOfRange(m, SetMin(a3), ""))
       ELSE None

_parse_bedrooms(m) ==
    LET p1 == CompoundAt(m, CompoundUnitWords \cup {"unit"})
        p2 == {i \in 1..(Len(m) - 1) : IsNum(m[i]) /\ m[i + 1].w \in BedroomWords}
    IN IF p1 # {} THEN Some(m[SetMin(p1)].n)
       ELSE IF p2 # {} THEN Some(m[SetMin(p2)].n)
       ELSE None

\* the feature flags of a message; the map is returned even when it is empty
_parse_unit_features(m) ==
    (IF HasWord(m, "balcony") THEN {<<"has_balcony", "true">>} ELSE {}) \cup
    (IF HasWord(m, "terrace") THEN {<<"has_terrace", "true">>} ELSE {})

\* {k: o} when the parser found a value, the empty patch otherwise
OptPatch(k, o) == IF o # None THEN (k :> o) ELSE EmptyPatch

BudgetSingle(m) ==
    LET Bound(budget) ==
            IF budget = None THEN EmptyPatch
            ELSE IF _is_budget_max_indicator(m) THEN ("budget_max" :> budget)
            ELSE IF _is_budget_min_indicator(m) THEN ("budget_min" :> budget)
            ELSE ("budget_max" :> budget)
    IN Bound(_parse_budget_egp(m))

AreaPart(m) ==
    LET Bound(area_range, area) ==
            IF area_range # None THEN Val(area_range)
            ELSE IF area = None THEN EmptyPatch
            ELSE IF _is_area_max_indicator(m) THEN ("area_max" :> area)
            ELSE IF _is_area_min_indicator(m) THEN ("area_min" :> area)
            ELSE ("area_min" :> area)
    IN Bound(_parse_area_range(m), _parse_area_m2(m))

extract_state_patch(m) ==
    LET has_area_indicators == HasAnyWord(m, {"sqm", "m2", "meter", "meters"})
        \* with an area unit in the text the area is parsed first and the budget
        \* range is not tried; otherwise the budget (range, then single) comes first
        Bounds(p2, area, single, budget_range) ==
            IF has_area_indicators
            THEN Update(Update(p2, area), single)
            ELSE Update(Update(p2, IF budget_range # None THEN Val(budget_range) ELSE single),
                        area)
    IN Update(Update(Bounds(Update(OptPatch("location", _parse_location(m)),
                                   OptPatch("unit_type", _parse_unit_type(m))),
                            AreaPart(m), BudgetSingle(m), _parse_budget_range(m)),
                     OptPatch("bedrooms", _parse_bedrooms(m))),
              "features" :> Some(_parse_unit_features(m)))

----------------------------------------------------------------------------
(* services/refine.py *)

\* isinstance(v, (int, float)) and v: a number other than zero
Truthy(o) == o # None /\ Val(o) # 0

_parse_number_egp(m) ==
    LET mon == {i \in 1..Len(m) : IsMoney(m[i])}
        big == {i \in 1..Len(m) : IsBigNumber(m[i])}
    IN IF mon # {} THEN Some(Million(m[SetMin(mon)].n))
       ELSE IF big # {} THEN Some(m[SetMin(big)].n)
       ELSE None

Unconfirm == ("confirmed" :> Some(FALSE)) @@ ("chosen_option" :> None)

ResetPatch ==
    [location |-> None, budget_min |-> None, budget_max |-> None, unit_type |-> None,
     area_min |-> None, area_max |-> None, confirmed |-> Some(FALSE), chosen_option |-> None,
     last_results |-> <<>>, last_project_ids |-> <<>>] @@ ("__did_reset__" :> Some(TRUE))

IsResetText(m) ==
    \/ ContainsAny(m, {"reset", "restart"})
    \/ HasAnyPhrase(m, {<<"start", "over">>, <<"new", "search">>, <<"from", "scratch">>})

\* faulty variant: "cheaper" and "more expensive" step by a tenth of budget_max
\* with no minimum step
build_refine_patch_TenPercent(m, st) ==
    LET bm == Get(st, "budget_max")
    IN IF IsResetText(m) THEN ResetPatch
       ELSE IF Contains(m, "cheaper") /\ Truthy(bm)
       THEN ("budget_max" :> Some(Max2(Val(bm) - Val(bm) \div 10, 0))) @@ Unconfirm
       ELSE IF /\ HasAnyPhrase(m, {<<"more", "expensive">>, <<"increase", "budget">>})
               /\ Truthy(bm)
       THEN ("budget_max" :> Some(Val(bm) + Val(bm) \div 10)) @@ Unconfirm
       ELSE EmptyPatch

\* the refinement patch of a message; the empty patch when it is no refinement.
\* The "change/set location to X" form is outside the vocabulary.
build_refine_patch(m, st) ==
    LET n == _parse_number_egp(m)
        bm == Get(st, "budget_max")
        am == Get(st, "area_min")
    IN IF IsResetText(m) THEN ResetPatch
       ELSE IF /\ \/ ContainsAny(m, {"budget", "max", "under", "increase", "raise", "set", "to"})
                  \/ HasAnyPhrase(m, {<<"less", "than">>, <<"up", "to">>})
               /\ n # None
               /\ \/ ContainsAny(m, {"budget", "max", "under", "egp", "million", "m"})
                  \/ HasPhrase(m, <<"up", "to">>)
                  \/ Val(n) >= 500000
       THEN ("budget_max" :> n) @@ Unconfirm
       ELSE IF \/ ContainsAny(m, {"cheaper", "lower"})
               \/ HasAnyPhrase(m, {<<"decrease", "budget">>, <<"reduce", "budget">>})
       THEN (IF Truthy(bm)
             THEN ("budget_max" :> Some(Max2(Val(bm) - Max2(Val(bm) \div 10, 250000), 0)))
                  @@ Unconfirm
             ELSE EmptyPatch)
       ELSE IF HasAnyPhrase(m, {<<"more", "expensive">>, <<"increase", "budget">>,
                                <<"raise", "budget">>, <<"higher", "budget">>})
       THEN (IF Truthy(bm)
             THEN ("budget_max" :> Some(Val(bm) + Max2(Val(bm) \div 10, 250000))) @@ Unconfirm
             ELSE EmptyPatch)
       ELSE IF \/ ContainsAny(m, {"bigger", "larger"})
               \/ HasAnyPhrase(m, {<<"more", "space">>})
       THEN ("area_min" :> (IF Truthy(am)
                            THEN Some(Val(am) + Max2(Val(am) \div 10, Sqm(10)))
                            ELSE Some(Sqm(100)))) @@ Unconfirm
       ELSE IF \/ Contains(m, "smaller")
               \/ HasAnyPhrase(m, {<<"less", "space">>})
       THEN (IF Truthy(am)
             THEN ("area_min" :> (IF Val(am) - Sqm(10) >= Sqm(30)
                                  THEN Some(Val(am) - Sqm(10)) ELSE None)) @@ Unconfirm
             ELSE EmptyPatch)
       ELSE EmptyPatch

----------------------------------------------------------------------------
(* The database: projects and their unit types (project_unit_types rows) *)

Projects ==
    << [id |-> 2, project_name |-> <<"alpha">>, area |-> "New Cairo"],
       [id |-> 7, project_name |-> <<"beta">>, area |-> "New Cairo"],
       [id |-> 1, project_name |-> <<"gamma">>, area |-> "Sheikh Zayed"] >>

Units ==
    << [id |-> 1, project_id |-> 2, unit_type |-> "Apartment", area |-> Sqm(120), price |-> 4800000],
       [id |-> 2, project_id |-> 2, unit_type |-> "Apartment with Garden", area |-> Sqm(150), price |-> 4500000],
       [id |-> 3, project_id |-> 7, unit_type |-> "Apartment", area |-> Sqm(100), price |-> 3000000],
       [id |-> 4, project_id |-> 7, unit_type |-> "Villa", area |-> Sqm(300), price |-> 9000000],
       [id |-> 5, project_id |-> 1, unit_type |-> "Villa", area |-> Sqm(350), price |-> 8000000],
       [id |-> 6, project_id |-> 1, unit_type |-> "Apartment", area |-> Sqm(110), price |-> 4000000] >>

ProjectById(pid) ==
    LET hits == {i \in 1..Len(Projects) : Projects[i].id = pid}
    IN IF hits = {} THEN None ELSE Some(Projects[SetMin(hits)])

\* text ILIKE '%' || pattern || '%' on the texts of the database
ILike(text, pattern) ==
    \/ pattern = ""
    \/ text = pattern
    \/ <<text, pattern>> \in {<<"Sheikh Zayed", "Zayed">>, <<"Apartment with Garden", "Apartment">>}

----------------------------------------------------------------------------
(* services/search.py *)

Abs(x) == IF x < 0 THEN -x ELSE x

\* faulty variant: ascending price whether or not a maximum budget is given
RowBefore_ByPrice(a, b, budget_max) ==
    \/ a.unit_price < b.unit_price
    \/ (a.unit_price = b.unit_price /\ a.unit_area > b.unit_area)
    \/ (a.unit_price = b.unit_price /\ a.unit_area = b.unit_area /\ a.unit_id < b.unit_id)

\* ORDER BY key ASC, area DESC (no two rows of the database tie on both)
RowBefore(a, b, budget_max) ==
    LET ka == IF budget_max # None THEN Abs(a.unit_price - Val(budget_max)) ELSE a.unit_price
        kb == IF budget_max # None THEN Abs(b.unit_price - Val(budget_max)) ELSE b.unit_price
    IN \/ ka < kb
       \/ (ka = kb /\ a.unit_area > b.unit_area)
       \/ (ka = kb /\ a.unit_area = b.unit_area /\ a.unit_id < b.unit_id)

RECURSIVE SortRows(_, _)
SortRows(S, budget_max) ==
    IF S = {} THEN <<>>
    ELSE LET first == CHOOSE a \in S : \A b \in S \ {a} : RowBefore(a, b, budget_max)
         IN <<first>> \o SortRows(S \ {first}, budget_max)

Take(s, n) == SubSeq(s, 1, Min2(n, Len(s)))

search_db(st, limit) ==
    LET location == IF Get(st, "location") = None THEN "" ELSE Val(st.location)
        unit_type == Get(st, "unit_type")
        budget_min == Get(st, "budget_min")
        budget_max == Get(st, "budget_max")
        area_min == Get(st, "area_min")
        area_max == Get(st, "area_max")
        joined == {[unit_id |-> Units[i].id, project_id |-> Units[i].project_id,
                    project_name |-> Val(ProjectById(Units[i].project_id)).project_name,
                    location |-> Val(ProjectById(Units[i].project_id)).area,
                    unit_type |-> Units[i].unit_type, unit_area |-> Units[i].area,
                    unit_price |-> Units[i].price] :
                   i \in {j \in 1..Len(Units) : ProjectById(Units[j].project_id) # None}}
        rows == {r \in joined :
                    /\ ILike(r.location, location)
                    /\ (unit_type = None \/ ILike(r.unit_type, Val(unit_type)))
                    /\ (budget_min = None \/ r.unit_price >= Val(budget_min))
                    /\ (budget_max = None \/ r.unit_price <= Val(budget_max))
                    /\ (area_min = None \/ r.unit_area >= Val(area_min))
                    /\ (area_max = None \/ r.unit_area <= Val(area_max))}
    IN Take(SortRows(rows, budget_max), limit)

----------------------------------------------------------------------------
(* services/formatting.py *)

Slim(r) ==
    [project_id |-> r.project_id, project_name |-> r.project_name, location |-> r.location,
     unit_type |-> r.unit_type, area |-> r.unit_area, price |-> r.unit_price]

slim_results(results) == [i \in 1..Len(results) |-> Slim(results[i])]

RECURSIVE ShownRows(_, _)
\* the rows that format_results labels Option 1, Option 2, ...: a row whose
\* project was shown already is skipped
ShownRows(results, seen_project_ids) ==
    IF results = <<>> THEN <<>>
    ELSE IF Head(results).project_id \in seen_project_ids
         THEN ShownRows(Tail(results), seen_project_ids)
         ELSE <<Slim(Head(results))>> \o
              ShownRows(Tail(results), seen_project_ids \cup {Head(results).project_id})

\* the reply: the labelled options and the range "Option 1-n" it advertises
format_results(results) ==
    IF results = <<>> THEN [kind |-> "no_matches", slot |-> "", n |-> 0, options |-> <<>>]
    ELSE [kind |-> "results", slot |-> "", n |-> Len(ShownRows(results, {})),
          options |-> ShownRows(results, {})]

----------------------------------------------------------------------------
(* services/intents.py and services/intent_rules.py *)

\* the members of the Intent enumeration
IntentMembers ==
    {"RESTART", "SHOW_RESULTS", "PROVIDE_PREFERENCES", "REFINE_SEARCH",
     "CONFIRM_CHOICE", "UNKNOWN"}

\* Intent.<member>.value
IntentValue(member) ==
    CASE member = "RESTART" -> "restart"
      [] member = "SHOW_RESULTS" -> "show_results"
      [] member = "PROVIDE_PREFERENCES" -> "provide_preferences"
      [] member = "REFINE_SEARCH" -> "refine_search"
      [] member = "CONFIRM_CHOICE" -> "confirm_choice"
      [] OTHER -> "unknown"

StartsWithDigit(t) == IsNum(t) \/ IsMoney(t) \/ t.w \in {"1st", "2nd", "3rd", "4th", "5th"}
CountWords == {"first", "second", "third"}

_is_comparison_intent(m) ==
    \/ \E i, j \in 1..Len(m) :
          /\ i < j /\ m[i].w = "compare"
          /\ (StartsWithDigit(m[j]) \/ m[j].w \in CountWords)
    \/ \E i, j \in 1..Len(m) :
          i < j /\ m[i].w = "difference" /\ m[j].w \in {"between", "among"}
    \/ HasAnyWord(m, {"vs", "versus"})
    \/ \E i \in 1..Len(m) :
          /\ m[i].w = "which"
          /\ LET j == IF i + 1 <= Len(m) /\ m[i + 1].w = "is" THEN i + 2 ELSE i + 1
             IN j <= Len(m) /\ m[j].w \in {"better", "best", "cheaper", "more", "bigger", "smaller"}
                /\ (m[j].w = "more" => (j + 1 <= Len(m) /\ m[j + 1].w = "expensive"))
    \/ \E i \in 1..(Len(m) - 2) :
          /\ (IsNum(m[i]) \/ m[i].w \in CountWords)
          /\ m[i + 1].w \in {"and", "or", "vs"}
          /\ \/ StartsWithDigit(m[i + 2]) \/ m[i + 2].w \in CountWords
             \/ /\ m[i + 2].w \in {"option", "choice"} /\ i + 3 <= Len(m)
                /\ (StartsWithDigit(m[i + 3]) \/ m[i + 3].w \in CountWords)
    \/ HasAnyPhrase(m, {<<"which", "one", "best">>, <<"which", "one", "is", "best">>})

PickTargets == {"first", "second", "third", "1st", "2nd", "3rd", "this", "that"}

_is_confirm_intent(m) ==
    \/ \E i \in 1..Len(m) :
          /\ m[i].w \in {"want", "choose", "pick", "select", "like", "prefer"}
          /\ LET a == IF i + 1 <= Len(m) /\ m[i + 1].w = "the" THEN i + 2 ELSE i + 1
                 b == IF a <= Len(m) /\ m[a].w \in {"option", "choice"} THEN a + 1 ELSE a
             IN b <= Len(m) /\ (IsNum(m[b]) \/ m[b].w \in PickTargets)
    \/ \E i \in 1..(Len(m) - 1) :
          m[i].w \in {"book", "reserve", "schedule", "arrange", "confirm", "finalize",
                      "contact", "call", "reach"}
    \/ HasAnyPhrase(m, {<<"this", "one", "good">>, <<"this", "one", "is", "good">>,
                        <<"this", "one", "ok">>, <<"this", "one", "is", "ok">>})

_is_details_intent(m) ==
    \/ HasAnyPhrase(m, {<<"tell", "me", "more">>, <<"more", "info">>, <<"more", "information">>,
                        <<"more", "details">>, <<"details", "about">>, <<"details", "for">>,
                        <<"details", "on">>, <<"show", "details">>, <<"show", "me", "details">>,
                        <<"show", "the", "details">>, <<"show", "me", "the", "details">>})
    \/ HasWord(m, "describe")
    \/ \E i \in 1..Len(m) :
          /\ m[i].w = "about"
          /\ LET a == IF i + 1 <= Len(m) /\ m[i + 1].w = "the" THEN i + 2 ELSE i + 1
                 b == IF a <= Len(m) /\ m[a].w \in {"option", "choice"} THEN a + 1 ELSE a
             IN b <= Len(m) /\ (StartsWithDigit(m[b]) \/ m[b].w \in CountWords)
    \/ \E i \in 1..(Len(m) - 1) :
          (IsNum(m[i]) \/ m[i].w \in CountWords) /\ m[i + 1].w = "details"

UnitPlurals == {"apartments", "villas", "studios", "duplexes", "chalets", "townhouses"}

_is_filter_intent(m) ==
    \/ \E i \in 1..(Len(m) - 1) :
          /\ m[i].w \in {"only", "remove", "exclude", "just"}
          /\ \E j \in (i + 1)..Min2(i + 3, Len(m)) :
                /\ m[j].w \in UnitPlurals
                /\ \A k \in (i + 1)..(j - 1) : m[k].w \in {"show", "me", "the"}
    \/ HasAnyPhrase(m, {<<"filter", "by">>, <<"filter", "for">>})

SortKeys == {"price", "budget", "area", "size", "date", "newest", "oldest", "location"}

_is_sort_intent(m) ==
    \/ \E i \in 1..(Len(m) - 1) :
          /\ m[i].w \in {"sort", "sorted", "order"}
          /\ \/ m[i + 1].w \in SortKeys
             \/ (m[i + 1].w = "by" /\ i + 2 <= Len(m) /\ m[i + 2].w \in SortKeys)
    \/ \E i \in 1..(Len(m) - 1) :
          /\ m[i].w \in {"cheapest", "smallest", "largest", "biggest", "newest", "latest"}
          /\ m[i + 1].w \in {"first", "to", "one"}
    \/ HasAnyPhrase(m, {<<"lowest", "price">>, <<"lowest", "budget">>, <<"highest", "price">>,
                        <<"highest", "budget">>, <<"most", "expensive", "first">>,
                        <<"most", "expensive", "one">>})
    \/ \E i \in 1..(Len(m) - 1) :
          /\ m[i].w = "show"
          /\ LET a == IF m[i + 1].w = "the" THEN i + 2 ELSE i + 1
             IN a <= Len(m) /\ m[a].w \in {"cheapest", "smallest", "largest", "newest", "most"}
    \/ \E i \in 1..(Len(m) - 1) :
          m[i].w = "by" /\ m[i + 1].w \in {"price", "area", "budget", "size", "date", "location"}

_is_navigation_intent(m) ==
    \/ HasAnyWord(m, {"next", "previous", "prev", "result", "results"})
    \/ HasAnyPhrase(m, {<<"show", "more">>, <<"load", "more">>, <<"go", "back">>,
                        <<"go", "forward">>, <<"first", "page">>, <<"last", "page">>})
    \/ \E i \in 1..(Len(m) - 1) :
          m[i].w = "page" /\ (IsNum(m[i + 1]) \/ m[i + 1].w \in {"one", "two", "three"})

RuleHasUnit(m) == ContainsAny(m, {"apartment", "villa", "townhouse", "duplex", "studio", "chalet"})

\* the name of the Intent member of the first rule that matches, or None
detect_intent_rules(m) ==
    LET has_money ==
            /\ \E i \in 1..Len(m) : StartsWithDigit(m[i])
            /\ (ContainsAny(m, {"egp", "million", "budget", "price"}) \/ ContainsMSpace(m))
        has_budget_phrase == (\E i \in 1..Len(m) : IsMoney(m[i])) /\ Contains(m, "budget")
        has_area == ContainsAny(m, {"m2", "sqm", "meter", "metre"})
        has_location ==
            \/ ContainsAny(m, {"mostakbal", "zayed", "tagamoa"})
            \/ HasAnyPhrase(m, {<<"new", "cairo">>, <<"north", "coast">>, <<"ain", "sokhna">>})
        has_bedroom == \E i \in 1..(Len(m) - 1) : IsNum(m[i]) /\ m[i + 1].w \in BedroomWords
    IN IF \/ ContainsAny(m, {"restart", "reset"})
          \/ HasAnyPhrase(m, {<<"start", "over">>, <<"new", "search">>, <<"from", "scratch">>,
                              <<"begin", "again">>})
       THEN Some("RESTART")
       ELSE IF _is_comparison_intent(m) THEN Some("COMPARE")
       ELSE IF _is_confirm_intent(m) THEN Some("CONFIRM_CHOICE")
       ELSE IF m \in {<<W("confirm")>>, <<W("yes")>>, <<W("ok")>>, <<W("okay")>>}
       THEN Some("CONFIRM_CHOICE")
       ELSE IF _is_details_intent(m) THEN Some("SHOW_DETAILS")
       ELSE IF _is_filter_intent(m) THEN Some("FILTER_RESULTS")
       ELSE IF _is_sort_intent(m) THEN Some("SORT_RESULTS")
       ELSE IF _is_navigation_intent(m) THEN Some("NAVIGATE")
       ELSE IF \/ ContainsAny(m, {"bigger", "smaller", "cheaper", "increase", "decrease", "adjust"})
               \/ HasAnyPhrase(m, {<<"more", "expensive">>, <<"change", "budget">>,
                                   <<"lower", "price">>, <<"better", "price">>,
                                   <<"less", "expensive">>})
               \/ HasWord(m, "reduce")
       THEN Some("REFINE_SEARCH")
       ELSE IF \/ HasAnyPhrase(m, {<<"show", "results">>, <<"list", "options">>,
                                   <<"what", "do", "you", "have">>})
               \/ m \in {<<W("options")>>, <<W("show"), W("options")>>}
               \/ (HasPhrase(m, <<"show", "me">>)
                   /\ ~(RuleHasUnit(m) \/ has_bedroom \/ has_location
                        \/ ContainsAny(m, {"marassi", "rehab", "katameya"})))
       THEN Some("SHOW_RESULTS")
       ELSE IF has_money \/ has_budget_phrase \/ has_area \/ RuleHasUnit(m) \/ has_location
       THEN Some("PROVIDE_PREFERENCES")
       ELSE None

----------------------------------------------------------------------------
(* services/intent_llm.py and services/intent_router.py *)

\* str.title() of the unit types the classifier may return
Title(u) ==
    CASE u = "apartment" -> "Apartment"
      [] u = "villa" -> "Villa"
      [] u = "chalet" -> "Chalet"
      [] OTHER -> u

\* the Intent members that the intent_map of llm_detect_intent reads
LlmIntentMapMembers ==
    {"PROVIDE_PREFERENCES", "FILTER_RESULTS", "SHOW_DETAILS", "COMPARE",
     "CONFIRM_CHOICE", "REFINE_SEARCH", "UNKNOWN"}

LlmIntentMap(raw) ==
    CASE raw = "search_projects" -> "provide_preferences"
      [] raw = "budget_check" -> "refine_search"
      [] raw = "schedule_visit" -> "confirm_choice"
      [] OTHER -> "unknown"

\* patch[k] = v when the entity is usable
PutIf(cond, d, k, v) == IF cond THEN Update(d, k :> v) ELSE d

\* patch.setdefault(k, v) when the entity is usable
SetDefaultIf(cond, d, k, v) == IF cond THEN SetDefault(d, k, v) ELSE d

\* res: the outcome of the classifier call, [ok, intent, entities]; ok = FALSE
\* when the call raised.  Result: [fault, llm, intent, state_patch].
llm_detect_intent(m, st, res) ==
    LET ent == res.entities
        Has(k) == k \in DOMAIN ent
        unit_type == IF Has("unit_type") THEN Some(Title(Val(ent.unit_type))) ELSE None
        patch ==
            PutIf(Has("payment_plan"),
              PutIf(Has("bedrooms"),
                SetDefaultIf(Has("unit_type") /\ Get(ent, "unit_type") # Some("any"),
                  SetDefaultIf(Has("location_area"),
                    PutIf(Has("budget_max"),
                      PutIf(Has("budget_min"), extract_state_patch(m),
                            "budget_min", Get(ent, "budget_min")),
                      "budget_max", Get(ent, "budget_max")),
                    "location", Get(ent, "location_area")),
                  "unit_type", unit_type),
                "bedrooms", Get(ent, "bedrooms")),
              "payment_plan", Get(ent, "payment_plan"))
    IN IF ~res.ok \/ ~(LlmIntentMapMembers \subseteq IntentMembers)
       THEN [fault |-> TRUE, llm |-> TRUE, intent |-> "", state_patch |-> EmptyPatch]
       ELSE [fault |-> FALSE, llm |-> TRUE, intent |-> LlmIntentMap(res.intent),
             state_patch |-> patch]

detect_intent(m, st, res) ==
    LET ByRule(rule_intent, deterministic_patch) ==
            IF Val(rule_intent) \in IntentMembers
            THEN [fault |-> FALSE, llm |-> FALSE, intent |-> IntentValue(Val(rule_intent)),
                  state_patch |-> deterministic_patch]
            ELSE [fault |-> TRUE, llm |-> FALSE, intent |-> "", state_patch |-> EmptyPatch]
        ByLlm(llm_result, deterministic_patch) ==
            IF llm_result.fault THEN llm_result
            ELSE [fault |-> FALSE, llm |-> TRUE, intent |-> llm_result.intent,
                  state_patch |-> Update(llm_result.state_patch, deterministic_patch)]
        Route(rule_intent, deterministic_patch) ==
            IF rule_intent # None THEN ByRule(rule_intent, deterministic_patch)
            ELSE ByLlm(llm_detect_intent(m, st, res), deterministic_patch)
    IN Route(detect_intent_rules(m), extract_state_patch(m))

----------------------------------------------------------------------------
(* services/projects_service.py and services/project_search_service.py *)

\* the units of a project, ORDER BY price ASC
RECURSIVE UnitsByPrice(_)
UnitsByPrice(S) ==
    IF S = {} THEN <<>>
    ELSE LET u == CHOOSE a \in S : \A b \in S : a.price < b.price \/ (a.price = b.price /\ a.id <= b.id)
         IN <<u>> \o UnitsByPrice(S \ {u})

get_project_with_units(pid) ==
    LET project == ProjectById(pid)
    IN IF project = None THEN None
       ELSE Some([id |-> Val(project).id, project_name |-> Val(project).project_name,
                  area |-> Val(project).area,
                  unit_types |-> UnitsByPrice({Units[i] : i \in {j \in 1..Len(Units) :
                                                                  Units[j].project_id = pid}})])

RECURSIVE get_projects_with_units(_)
get_projects_with_units(project_ids) ==
    IF project_ids = <<>> THEN <<>>
    ELSE LET item == get_project_with_units(Head(project_ids))
         IN (IF item # None THEN <<Val(item)>> ELSE <<>>) \o
            get_projects_with_units(Tail(project_ids))

\* the projects whose name contains the query, best match first; the names of
\* the database are distinct single words, so at most one project matches
search_projects_ranked(q) ==
    IF q = <<>> THEN <<>>
    ELSE SelectSeq(Projects, LAMBDA p : Len(q) = 1 /\ q[1].w = p.project_name[1])

----------------------------------------------------------------------------
(* services/chat_flow.py: helpers *)

\* a value is "falsy" in compute_missing_questions when it is None, "" or 0
compute_missing_questions(st) ==
    (IF Get(st, "location") = None \/ Get(st, "location") = Some("")
     THEN <<"location">> ELSE <<>>) \o
    (IF Get(st, "budget_max") = None \/ Get(st, "budget_max") = Some(0)
     THEN <<"budget_max">> ELSE <<>>) \o
    (IF Get(st, "unit_type") = None \/ Get(st, "unit_type") = Some("")
     THEN <<"unit_type">> ELSE <<>>)

\* update_conversation_state: the merged state is stored and committed
update_conversation_state(st, patch) == merge_state(st, patch)

\* the result of a turn
Response(st, branch, intent, reply) ==
    [state |-> st, branch |-> branch, intent |-> intent, reply |-> reply,
     fault |-> FALSE, searched |-> FALSE, searchState |-> EmptyPatch,
     selected |-> None, idx |-> None, llm |-> FALSE, patch |-> EmptyPatch]

Say(kind) == [kind |-> kind, slot |-> "", n |-> 0, options |-> <<>>]

\* faulty variant: the last missing slot is asked instead of the first
_respond_missing_Last(st, branch) ==
    LET missing == compute_missing_questions(st)
    IN Response(st, branch, "ask_question",
                [kind |-> "question",
                 slot |-> IF missing # <<>> THEN missing[Len(missing)] ELSE "anything",
                 n |-> 1, options |-> <<>>])

\* one question: the first missing slot
_respond_missing(st, branch) ==
    LET missing == compute_missing_questions(st)
    IN Response(st, branch, "ask_question",
                [kind |-> "question",
                 slot |-> IF missing # <<>> THEN missing[1] ELSE "anything",
                 n |-> 1, options |-> <<>>])

\* re.findall(r"\b\d+\b"): the bare numbers of the message
_extract_ids(m) ==
    LET nums == SelectSeq(m, IsNum)
    IN [i \in 1..Len(nums) |-> nums[i].n]

\* " w " in t: the word w with text before and after it
InnerWord(m, w) == \E i \in 2..(Len(m) - 1) : m[i].w = w

_is_compare(m) ==
    \/ Contains(m, "compare") \/ InnerWord(m, "vs")
    \/ Contains(m, "difference") \/ Contains(m, "versus")
    \/ /\ Contains(m, "between")
       /\ \E i, j, k, l \in 1..Len(m) :
             /\ i < j /\ j < k /\ k < l
             /\ m[i].w = "between" /\ IsNum(m[j]) /\ m[k].w = "and" /\ IsNum(m[l])
    \/ Contains(m, "between") /\ InnerWord(m, "and")

RECURSIVE SplitOn(_, _, _)
\* re.split on the separator words; cur is the part being read
SplitOn(m, seps, cur) ==
    IF m = <<>> THEN (IF cur = <<>> THEN <<>> ELSE <<cur>>)
    ELSE IF Head(m).w \in seps
         THEN (IF cur = <<>> THEN <<>> ELSE <<cur>>) \o SplitOn(Tail(m), seps, <<>>)
         ELSE SplitOn(Tail(m), seps, Append(cur, Head(m)))

_split_compare_names(m) ==
    LET cleaned == SplitOn(m, {"vs", "versus"}, <<>>)
    IN IF InnerWord(m, "vs") \/ InnerWord(m, "versus")
       THEN (IF cleaned # <<>> /\ Len(cleaned[1]) >= 2 /\ cleaned[1][1].w = "compare"
             THEN <<Tail(cleaned[1])>> \o Tail(cleaned)
             ELSE cleaned)
       ELSE IF Len(m) >= 2 /\ m[1].w = "compare"
       THEN SplitOn(Tail(m), {"and", "&"}, <<>>)
       ELSE IF Len(m) >= 3 /\ m[1].w = "difference" /\ m[2].w = "between"
       THEN SplitOn(Tail(Tail(m)), {"and", "&"}, <<>>)
       ELSE <<>>

\* re.search(r"\bbetween\b\s+(.*)\s+\band\b\s+(.*)$"): the names around the
\* last "and" after the first "between"
BetweenNames(m) ==
    LET bs == {i \in 1..Len(m) : m[i].w = "between" /\
                  \E k \in (i + 2)..(Len(m) - 1) : m[k].w = "and"}
        i == SetMin(bs)
        k == CHOOSE x \in (i + 2)..(Len(m) - 1) :
                 m[x].w = "and" /\ \A y \in (x + 1)..(Len(m) - 1) : m[y].w # "and"
    IN IF bs = {} THEN <<>>
       ELSE <<SubSeq(m, i + 1, k - 1), SubSeq(m, k + 1, Len(m))>>

_unit_intent(m) ==
    IF HasAnyPhrase(m, {<<"largest", "unit">>, <<"biggest", "unit">>, <<"max", "area">>,
                        <<"largest", "option">>})
    THEN Some("largest_unit")
    ELSE IF Contains(m, "cheapest") \/
            HasAnyPhrase(m, {<<"lowest", "price">>, <<"min", "price">>})
    THEN Some("cheapest_unit")
    ELSE None

\* faulty variant: the last of the units that tie, not the first
_pick_unit_LastOnTie(units, mode) ==
    LET figure == IF mode = "largest_unit" THEN "area" ELSE "price"
        filtered == {i \in 1..Len(units) : figure \in DOMAIN units[i]}
        best(i) == \A j \in filtered :
                       IF mode = "largest_unit" THEN units[j].area <= units[i].area
                       ELSE units[j].price >= units[i].price
    IN IF filtered = {} THEN None
       ELSE Some(units[CHOOSE i \in filtered : best(i) /\ \A k \in filtered : best(k) => k <= i])

\* max by area / min by price among the units that have the figure (a unit
\* without it has no such field); the first such unit of the list on a tie
_pick_unit(units, mode) ==
    LET figure == IF mode = "largest_unit" THEN "area" ELSE "price"
        filtered == {i \in 1..Len(units) : figure \in DOMAIN units[i]}
        best(i) == \A j \in filtered :
                       IF mode = "largest_unit" THEN units[j].area <= units[i].area
                       ELSE units[j].price >= units[i].price
    IN IF filtered = {} THEN None
       ELSE Some(units[SetMin({i \in filtered : best(i)})])

_looks_like_details_request(m) ==
    \/ ContainsAny(m, {"details", "describe", "amenities", "installments", "developer"})
    \/ HasAnyPhrase(m, {<<"tell", "me", "about">>, <<"more", "info">>,
                        <<"more", "information">>, <<"payment", "plan">>,
                        <<"down", "payment">>})
    \/ \E i \in 1..(Len(m) - 1) : m[i].w = "about"

\* faulty variant: the numbers are always taken as project ids
_maybe_map_option_indexes_Literal(m, ids, remembered) == ids

_maybe_map_option_indexes(m, ids, remembered) ==
    LET looks_like_option_compare ==
            \/ Contains(m, "compare") \/ Contains(m, "between")
            \/ InnerWord(m, "vs") \/ Contains(m, "versus")
        first4 == SubSeq(ids, 1, Min2(4, Len(ids)))
    IN IF remembered = <<>> \/ Len(ids) < 2 THEN ids
       ELSE IF /\ looks_like_option_compare
               /\ \A i \in 1..Len(first4) : 1 <= first4[i] /\ first4[i] <= Len(remembered)
            THEN [i \in 1..Len(first4) |-> remembered[first4[i]]]
       ELSE ids

RECURSIVE DedupIds(_, _)
\* the project ids of the rows, first occurrence kept, in order
DedupIds(rows, seen) ==
    IF rows = <<>> THEN <<>>
    ELSE IF Head(rows).project_id \in seen THEN DedupIds(Tail(rows), seen)
         ELSE <<Head(rows).project_id>> \o
              DedupIds(Tail(rows), seen \cup {Head(rows).project_id})

\* search_fails: the query raised
_search_and_respond(st, branch, search_fails) ==
    LET Store(slim) ==
            update_conversation_state(st,
                ("last_results" :> slim) @@ ("last_project_ids" :> DedupIds(slim, {})))
        Reply(results) ==
            [Response(Store(slim_results(results)), branch, "show_results",
                      format_results(results))
                EXCEPT !.searched = TRUE, !.searchState = st]
    IN IF search_fails
       THEN [Response(st, branch, "error", Say("search_error"))
                EXCEPT !.searched = TRUE, !.searchState = st]
       ELSE Reply(search_db(st, 10))

----------------------------------------------------------------------------
(* services/chat_flow.py: handle_chat_message *)

\* faulty variant: the chosen project id is appended to the remembered ids
SelectionBranch_Append(st, idx) ==
    LET last_results == st.last_results
        chosen == last_results[idx + 1]
        pid_int == chosen.project_id
        last_pids == SelectSeq(st.last_project_ids, LAMBDA x : x # pid_int) \o <<pid_int>>
        st2 == update_conversation_state(st,
                   ("confirmed" :> Some(TRUE)) @@ ("chosen_option" :> Some(chosen)) @@
                   ("last_project_ids" :> last_pids))
    IN IF 0 <= idx /\ idx < Len(last_results)
       THEN [Response(st2, "selection", "confirm_choice",
                      [kind |-> "selected", slot |-> "", n |-> idx + 1,
                       options |-> <<chosen>>])
                EXCEPT !.selected = Some(chosen), !.idx = Some(idx)]
       ELSE [Response(st, "selection", "ask_question",
                      [kind |-> "choose_between", slot |-> "", n |-> Len(last_results),
                       options |-> <<>>])
                EXCEPT !.idx = Some(idx)]

\* faulty variant: an index beyond the list selects the last listing
SelectionBranch_Clamp(st, idx) ==
    LET last_results == st.last_results
        i == IF idx < Len(last_results) THEN idx ELSE Len(last_results) - 1
        chosen == last_results[i + 1]
        pid_int == chosen.project_id
        last_pids == <<pid_int>> \o SelectSeq(st.last_project_ids, LAMBDA x : x # pid_int)
        st2 == update_conversation_state(st,
                   ("confirmed" :> Some(TRUE)) @@ ("chosen_option" :> Some(chosen)) @@
                   ("last_project_ids" :> last_pids))
    IN IF 0 <= idx /\ last_results # <<>>
       THEN [Response(st2, "selection", "confirm_choice",
                      [kind |-> "selected", slot |-> "", n |-> i + 1,
                       options |-> <<chosen>>])
                EXCEPT !.selected = Some(chosen), !.idx = Some(idx)]
       ELSE [Response(st, "selection", "ask_question",
                      [kind |-> "choose_between", slot |-> "", n |-> Len(last_results),
                       options |-> <<>>])
                EXCEPT !.idx = Some(idx)]

\* 0) option selection
SelectionBranch(st, idx) ==
    LET last_results == st.last_results
        chosen == last_results[idx + 1]
        pid_int == chosen.project_id
        last_pids == <<pid_int>> \o SelectSeq(st.last_project_ids, LAMBDA x : x # pid_int)
        st2 == update_conversation_state(st,
                   ("confirmed" :> Some(TRUE)) @@ ("chosen_option" :> Some(chosen)) @@
                   ("last_project_ids" :> last_pids))
    IN IF 0 <= idx /\ idx < Len(last_results)
       THEN [Response(st2, "selection", "confirm_choice",
                      [kind |-> "selected", slot |-> "", n |-> idx + 1,
                       options |-> <<chosen>>])
                EXCEPT !.selected = Some(chosen), !.idx = Some(idx)]
       ELSE [Response(st, "selection", "ask_question",
                      [kind |-> "choose_between", slot |-> "", n |-> Len(last_results),
                       options |-> <<>>])
                EXCEPT !.idx = Some(idx)]

\* faulty variant: the refined state is searched without the missing-slot check
RefineBranch_NoMissingCheck(st, refine_patch, search_fails) ==
    LET AskOrSearch(st2) ==
            IF "__did_reset__" \in DOMAIN refine_patch THEN _respond_missing(st2, "refine")
            ELSE _search_and_respond(update_conversation_state(st2, Unconfirm), "refine",
                                     search_fails)
    IN AskOrSearch(update_conversation_state(st, Pop(refine_patch, "__did_reset__")))

\* 1) refinement / reset
RefineBranch(st, refine_patch, search_fails) ==
    LET AskOrSearch(st2) ==
            IF "__did_reset__" \in DOMAIN refine_patch \/ compute_missing_questions(st2) # <<>>
            THEN _respond_missing(st2, "refine")
            ELSE _search_and_respond(update_conversation_state(st2, Unconfirm), "refine",
                                     search_fails)
    IN AskOrSearch(update_conversation_state(st, Pop(refine_patch, "__did_reset__")))

\* 1.5 A) cheapest / largest unit
SuperlativeBranch(st, m, u_intent) ==
    LET ids == _extract_ids(m)
        remembered == st.last_project_ids
        project_id == IF ids # <<>> THEN Some(ids[1])
                      ELSE IF remembered # <<>> THEN Some(remembered[1])
                      ELSE None
        project == get_project_with_units(Val(project_id))
        st2 == update_conversation_state(st, "last_project_ids" :> <<Val(project).id>>)
        chosen_unit == _pick_unit(Val(project).unit_types, u_intent)
    IN IF project_id = None
       THEN Response(st, "superlative", "unit_query", Say("which_project"))
       ELSE IF project = None
       THEN Response(st, "superlative", "unit_query", Say("project_not_found"))
       ELSE IF chosen_unit = None
       THEN Response(st2, "superlative", "unit_query", Say("no_unit_data"))
       ELSE Response(st2, "superlative", "unit_query",
                     [kind |-> u_intent, slot |-> "", n |-> Val(project).id,
                      options |-> <<Val(chosen_unit)>>])

RECURSIVE ResolveNames(_)
\* the id of the best match of each name that matches a project
ResolveNames(names) ==
    IF names = <<>> THEN <<>>
    ELSE LET ranked == search_projects_ranked(Head(names))
         IN (IF ranked # <<>> THEN <<ranked[1].id>> ELSE <<>>) \o ResolveNames(Tail(names))

\* the project ids a comparison is about; "none" when the turn asks for names
CompareIds(st, m) ==
    LET remembered == st.last_project_ids
        ids1 == _maybe_map_option_indexes(m, _extract_ids(m), remembered)
        split == _split_compare_names(m)
        name_parts == IF split # <<>> THEN split ELSE BetweenNames(m)
    IN IF Len(ids1) >= 2 THEN [ask |-> FALSE, ids |-> ids1]
       ELSE IF name_parts = <<>>
       THEN (IF Len(remembered) >= 2 THEN [ask |-> FALSE, ids |-> remembered]
             ELSE [ask |-> TRUE, ids |-> <<>>])
       ELSE [ask |-> FALSE,
             ids |-> ResolveNames(SubSeq(name_parts, 1, Min2(2, Len(name_parts))))]

\* faulty variant: the projects that were found are remembered even when they
\* are too few to compare
CompareBranch_StoreFound(st, m) ==
    LET c == CompareIds(st, m)
        projects == get_projects_with_units(SubSeq(c.ids, 1, Min2(4, Len(c.ids))))
        st2 == update_conversation_state(st,
                   "last_project_ids" :> [i \in 1..Len(projects) |-> projects[i].id])
    IN IF c.ask THEN Response(st, "compare", "compare", Say("tell_me_two_projects"))
       ELSE IF Len(c.ids) < 2 THEN Response(st, "compare", "compare", Say("could_not_resolve"))
       ELSE IF Len(projects) < 2 THEN Response(st2, "compare", "compare", Say("not_enough_projects"))
       ELSE Response(st2, "compare", "compare",
                     [kind |-> "compare_summary", slot |-> "", n |-> Len(projects),
                      options |-> projects])

\* 1.5 B) comparison
CompareBranch(st, m) ==
    LET c == CompareIds(st, m)
        projects == get_projects_with_units(SubSeq(c.ids, 1, Min2(4, Len(c.ids))))
        st2 == update_conversation_state(st,
                   "last_project_ids" :> [i \in 1..Len(projects) |-> projects[i].id])
    IN IF c.ask THEN Response(st, "compare", "compare", Say("tell_me_two_projects"))
       ELSE IF Len(c.ids) < 2 THEN Response(st, "compare", "compare", Say("could_not_resolve"))
       ELSE IF Len(projects) < 2 THEN Response(st, "compare", "compare", Say("not_enough_projects"))
       ELSE Response(st2, "compare", "compare",
                     [kind |-> "compare_summary", slot |-> "", n |-> Len(projects),
                      options |-> projects])

\* faulty variant: the project is put in front of the remembered ids
DetailsBranch_Prepend(st, m) ==
    LET ids == _extract_ids(m)
        ranked == search_projects_ranked(m)
        same_name == SelectSeq(ranked, LAMBDA r : r.project_name = ranked[1].project_name)
        project == IF ids # <<>> THEN get_project_with_units(ids[1])
                   ELSE IF ranked # <<>> THEN get_project_with_units(ranked[1].id)
                   ELSE None
        st2 == update_conversation_state(st,
                   "last_project_ids" :> (<<Val(project).id>> \o st.last_project_ids))
    IN IF ids = <<>> /\ ranked # <<>> /\ Len(same_name) >= 2
       THEN Response(st, "details", "disambiguate", Say("which_one"))
       ELSE IF project = None
       THEN Response(st, "details", "details", Say("tell_me_the_project"))
       ELSE Response(st2, "details", "details",
                     [kind |-> "project_details", slot |-> "", n |-> Val(project).id,
                      options |-> <<Val(project)>>])

\* 1.5 C) details
DetailsBranch(st, m) ==
    LET ids == _extract_ids(m)
        ranked == search_projects_ranked(m)
        same_name == SelectSeq(ranked, LAMBDA r : r.project_name = ranked[1].project_name)
        project == IF ids # <<>> THEN get_project_with_units(ids[1])
                   ELSE IF ranked # <<>> THEN get_project_with_units(ranked[1].id)
                   ELSE None
        st2 == update_conversation_state(st, "last_project_ids" :> <<Val(project).id>>)
    IN IF ids = <<>> /\ ranked # <<>> /\ Len(same_name) >= 2
       THEN Response(st, "details", "disambiguate", Say("which_one"))
       ELSE IF project = None
       THEN Response(st, "details", "details", Say("tell_me_the_project"))
       ELSE Response(st2, "details", "details",
                     [kind |-> "project_details", slot |-> "", n |-> Val(project).id,
                      options |-> <<Val(project)>>])

\* 2)-4) intent detection, missing-slot question, search
DefaultBranch(st, m, search_fails, res) ==
    LET Kept(p) == [k \in {j \in DOMAIN p : p[j] # None} |-> p[k]]
        Merged(intent_patch) ==
            IF DOMAIN intent_patch # {}
            THEN update_conversation_state(st,
                     SetDefault(SetDefault(intent_patch, "confirmed", Some(FALSE)),
                                "chosen_option", None))
            ELSE st
        AskOrSearch(st2) ==
            IF compute_missing_questions(st2) # <<>> THEN _respond_missing(st2, "default")
            ELSE _search_and_respond(st2, "default", search_fails)
        Finish(intent_bundle) ==
            IF intent_bundle.fault
            THEN [Response(st, "default", "", Say("fault"))
                     EXCEPT !.fault = TRUE, !.llm = intent_bundle.llm]
            ELSE [AskOrSearch(Merged(Kept(intent_bundle.state_patch)))
                     EXCEPT !.llm = intent_bundle.llm, !.patch = intent_bundle.state_patch]
    IN Finish(detect_intent(m, st, res))

\* faulty variant: the early patch does not withdraw the confirmation
EarlyState_KeepChoice(st0, m) ==
    LET Twice(p) == update_conversation_state(update_conversation_state(st0, p), p)
    IN Twice(extract_state_patch(m))

\* the state after the early deterministic parse (it is applied twice)
EarlyState(st0, m) ==
    LET Twice(p) == update_conversation_state(update_conversation_state(st0, p), p)
        Apply(early_patch) ==
            IF DOMAIN early_patch # {}
            THEN Twice(SetDefault(SetDefault(early_patch, "confirmed", Some(FALSE)),
                                  "chosen_option", None))
            ELSE st0
    IN Apply(extract_state_patch(m))

\* faulty variant: the refinement branch is tried before the selection branch
handle_chat_message_RefineFirst(st0, m, search_fails, res) ==
    LET Branch(st, idx, refine_patch, u_intent) ==
            IF DOMAIN refine_patch # {} THEN RefineBranch(st, refine_patch, search_fails)
            ELSE IF idx # None THEN SelectionBranch(st, Val(idx))
            ELSE IF u_intent # None THEN SuperlativeBranch(st, m, Val(u_intent))
            ELSE IF _is_compare(m) THEN CompareBranch(st, m)
            ELSE IF _looks_like_details_request(m) THEN DetailsBranch(st, m)
            ELSE DefaultBranch(st, m, search_fails, res)
        Turn(st) == Branch(st, extract_option_index(m), build_refine_patch(m, st),
                           _unit_intent(m))
    IN Turn(EarlyState(st0, m))

\* the branches in the order of the source; st is the state after the early parse
handle_chat_message(st0, m, search_fails, res) ==
    LET Branch(st, idx, refine_patch, u_intent) ==
            IF idx # None THEN SelectionBranch(st, Val(idx))
            ELSE IF DOMAIN refine_patch # {} THEN RefineBranch(st, refine_patch, search_fails)
            ELSE IF u_intent # None THEN SuperlativeBranch(st, m, Val(u_intent))
            ELSE IF _is_compare(m) THEN CompareBranch(st, m)
            ELSE IF _looks_like_details_request(m) THEN DetailsBranch(st, m)
            ELSE DefaultBranch(st, m, search_fails, res)
        Turn(st) == Branch(st, extract_option_index(m), build_refine_patch(m, st),
                           _unit_intent(m))
    IN Turn(EarlyState(st0, m))

----------------------------------------------------------------------------
(* rag/state_manager.py, rag/search_service.py, rag/orchestrator.py *)

RagFields ==
    {"budget_min", "budget_max", "location_area", "unit_type", "bedrooms",
     "delivery_year", "payment_plan", "last_intent", "last_project_ids"}

\* a new RagConversationState row; last_project_ids has the server default []
RagNewState ==
    [k \in RagFields |-> IF k = "last_project_ids" THEN Some(<<>>) ELSE None]

\* StateUpdate(...): the fields that are not given are None
StateUpdate(given) == [k \in RagFields |-> IF k \in DOMAIN given THEN given[k] ELSE None]

\* faulty variant: every field of the update is stored, None included
StateManager_merge_state_Clear(st, upd) ==
    [k \in RagFields |-> IF k = "last_project_ids" THEN st[k] ELSE upd[k]]

\* StateManager.merge_state: the fields of the update that are None are skipped
StateManager_merge_state(st, upd) ==
    [k \in RagFields |-> IF upd[k] = None THEN st[k] ELSE upd[k]]

\* StateManager.get_last_messages: ORDER BY created_at ASC LIMIT limit
get_last_messages(msgs, limit) == Take(msgs, limit)

REQUIRED_ORDER == <<"location_area", "budget_max", "unit_type">>
NICE_TO_HAVE_ORDER == <<"bedrooms", "payment_plan">>
OPTIONAL_SLOTS == {"budget_min", "delivery_year"}

\* is_missing: None, "" or []
is_missing(slot, val) ==
    \/ val = None
    \/ slot \in {"location_area", "unit_type", "payment_plan"} /\ val = Some("")

_compute_missing_slots_from_state(st) ==
    LET missing == SelectSeq(REQUIRED_ORDER, LAMBDA slot : is_missing(slot, st[slot]))
    IN IF missing # <<>> THEN missing
       ELSE SelectSeq(NICE_TO_HAVE_ORDER,
                      LAMBDA slot : slot \notin OPTIONAL_SLOTS /\ is_missing(slot, st[slot]))

\* the deterministic reading of the answer to a follow-up question
_extract_slot_value(slot, m) ==
    LET small == {i \in 1..Len(m) : IsNum(m[i]) /\ m[i].n <= 99}
        mill == {i \in 1..Len(m) : IsMoney(m[i]) \/
                    (IsNum(m[i]) /\ i < Len(m) /\ m[i + 1].w \in {"m", "million"})}
        thou == {i \in 1..Len(m) : IsNum(m[i]) /\ i < Len(m) /\ m[i + 1].w \in {"k", "thousand"}}
        long == {i \in 1..Len(m) : IsNum(m[i]) /\ m[i].n >= 10000 /\ m[i].n <= 999999999}
    IN CASE slot = "unit_type" ->
              IF Contains(m, "apartment") \/ Contains(m, "apt") THEN Some("apartment")
              ELSE IF Contains(m, "villa") THEN Some("villa")
              ELSE IF Contains(m, "chalet") THEN Some("chalet")
              ELSE IF Contains(m, "townhouse") THEN Some("townhouse")
              ELSE None
         [] slot = "payment_plan" ->
              IF Contains(m, "cash") THEN Some("cash")
              ELSE IF Contains(m, "installment") \/ Contains(m, "installments")
                   THEN Some("installments")
              ELSE IF Contains(m, "either") \/ Contains(m, "any") THEN Some("either")
              ELSE None
         [] slot = "bedrooms" ->
              IF small # {} THEN Some(m[SetMin(small)].n) ELSE None
         [] slot \in {"budget_max", "budget_min"} ->
              IF mill # {} THEN Some(Million(m[SetMin(mill)].n))
              ELSE IF thou # {} THEN Some(m[SetMin(thou)].n * 1000)
              ELSE IF long # {} THEN Some(m[SetMin(long)].n)
              ELSE None
         [] OTHER -> None

\* _unit_type_pattern and ILIKE on project_unit_types.unit_type
UnitTypeLike(text, unit_type) ==
    CASE unit_type \in {"apartment", "apt", "flat"} ->
              text \in {"Apartment", "Apartment with Garden"}
      [] unit_type = "villa" -> text = "Villa"
      [] unit_type = "" -> TRUE
      [] OTHER -> FALSE

RECURSIVE ByPrice(_)
\* ORDER BY put.price ASC (no two unit types of the database have the same price)
ByPrice(S) ==
    IF S = {} THEN <<>>
    ELSE LET r == CHOOSE a \in S : \A b \in S : a.unit_price <= b.unit_price
         IN <<r>> \o ByPrice(S \ {r})

search_units(location_area, unit_type, budget_max, limit) ==
    LET rows == {[project_id |-> Units[i].project_id,
                  project_name |-> Val(ProjectById(Units[i].project_id)).project_name,
                  project_area |-> Val(ProjectById(Units[i].project_id)).area,
                  unit_type |-> Units[i].unit_type, unit_area_sqm |-> Units[i].area,
                  unit_price |-> Units[i].price] :
                 i \in {j \in 1..Len(Units) :
                          /\ ProjectById(Units[j].project_id) # None
                          /\ ILike(Val(ProjectById(Units[j].project_id)).area, location_area)
                          /\ UnitTypeLike(Units[j].unit_type, unit_type)
                          /\ Units[j].price <= budget_max}}
    IN Take(ByPrice(rows), limit)

UserMessage == [role |-> "user", intent |-> "", missing |-> <<>>]
AssistantMessage(intent, missing) == [role |-> "assistant", intent |-> intent, missing |-> missing]

\* the result of a ChatOrchestrator turn
RagResponse(st, msgs, mode, reply) ==
    [state |-> st, msgs |-> msgs, mode |-> mode, reply |-> reply, fault |-> FALSE,
     searched |-> FALSE, searchState |-> RagNewState]

\* faulty variant: the user message of the failed turn stays in the log
RagFault_KeepUserMessage(st0, msgs0, mode) ==
    [RagResponse(st0, Append(msgs0, UserMessage), mode, [kind |-> "fault", slot |-> "", n |-> 0])
        EXCEPT !.fault = TRUE]

\* the except clause: rollback to the committed rows, and the fault is raised again
RagFault(st0, msgs0, mode) ==
    [RagResponse(st0, msgs0, mode, [kind |-> "fault", slot |-> "", n |-> 0])
        EXCEPT !.fault = TRUE]

\* the follow-up question for the first missing slot
RagAsk(st, msgs, mode, missing) ==
    RagResponse(st, Append(msgs, AssistantMessage("follow_up", missing)), mode,
                [kind |-> "question", slot |-> missing[1], n |-> 1])

_run_search_and_reply(st0, msgs0, st, msgs, mode, search_fails) ==
    LET budget_max == IF st.budget_max # None THEN Val(st.budget_max) ELSE 0
        results == search_units(IF st.location_area = None THEN "" ELSE Val(st.location_area),
                                IF st.unit_type = None THEN "" ELSE Val(st.unit_type),
                                budget_max, 5)
        project_ids == DedupIds(results, {})
        st2 == StateManager_merge_state(st, StateUpdate("last_project_ids" :> Some(project_ids)))
        intent == IF st.last_intent = None \/ st.last_intent = Some("")
                  THEN "search_projects" ELSE Val(st.last_intent)
    IN IF search_fails THEN [RagFault(st0, msgs0, mode) EXCEPT !.searched = TRUE, !.searchState = st]
       ELSE IF results = <<>>
       THEN [RagResponse(st, Append(msgs, AssistantMessage(intent, <<>>)), mode,
                         [kind |-> "no_matches", slot |-> "", n |-> 0])
                EXCEPT !.searched = TRUE, !.searchState = st]
       ELSE [RagResponse(st2, Append(msgs, AssistantMessage(intent, <<>>)), mode,
                         [kind |-> "results", slot |-> "", n |-> Len(results)])
                EXCEPT !.searched = TRUE, !.searchState = st]

\* ChatOrchestrator.handle_user_message; res is what the classifier call returns
handle_user_message(st0, msgs0, m, res, search_fails) ==
    LET msgs == Append(msgs0, UserMessage)
        recent == get_last_messages(msgs, 10)
        assistants == {i \in 1..Len(recent) : recent[i].role = "assistant"}
        last_assistant == recent[CHOOSE i \in assistants : \A j \in assistants : j <= i]
        asked_slot == IF assistants # {} /\ last_assistant.intent = "follow_up"
                         /\ last_assistant.missing # <<>>
                      THEN Some(last_assistant.missing[1]) ELSE None
        extracted == IF asked_slot # None THEN _extract_slot_value(Val(asked_slot), m) ELSE None
        stF == StateManager_merge_state(st0, StateUpdate(Val(asked_slot) :> extracted))
        missingF == _compute_missing_slots_from_state(stF)
        ent == res.entities
        stN == StateManager_merge_state(st0,
                   StateUpdate([k \in DOMAIN ent \cap (RagFields \ {"last_intent", "last_project_ids"})
                                   |-> ent[k]] @@ ("last_intent" :> Some(res.intent))))
        missingN == _compute_missing_slots_from_state(stN)
    IN IF extracted # None
       THEN (IF missingF # <<>> THEN RagAsk(stF, msgs, "follow_up", missingF)
             ELSE _run_search_and_reply(st0, msgs0, stF, msgs, "follow_up", search_fails))
       ELSE IF ~res.ok THEN RagFault(st0, msgs0, "normal")
       ELSE IF missingN # <<>> THEN RagAsk(stN, msgs, "normal", missingN)
       ELSE _run_search_and_reply(st0, msgs0, stN, msgs, "normal", search_fails)

----------------------------------------------------------------------------
(* The conversation: one turn per step *)

\* the user messages of the model
Messages ==
    { <<N(2)>>,
      <<W("option"), N(1)>>,
      <<W("option"), N(2)>>,
      <<W("option"), N(3)>>,
      <<W("option"), N(9)>>,
      <<W("cheaper"), W("than"), W("option"), N(2)>>,
      <<W("compare"), W("option"), N(1), W("and"), N(3)>>,
      <<W("compare"), N(1), W("and"), N(2)>>,
      <<W("compare"), W("alpha"), W("and"), W("gamma")>>,
      <<W("reset")>>,
      <<W("cheaper")>>,
      <<W("bigger")>>,
      <<W("cheapest"), W("unit")>>,
      <<W("details"), W("project"), N(7)>>,
      <<W("project"), N(7)>>,
      <<W("compare"), N(1), W("and"), N(1)>>,
      <<W("compare"), N(2), W("and"), N(9)>>,
      <<N(3), W("bedrooms")>>,
      <<W("apartment"), W("in"), W("new"), W("cairo"), W("under"), M(5)>>,
      <<W("under"), M(5)>>,
      <<W("at"), W("least"), M(8)>>,
      <<W("from"), M(8)>>,
      <<W("between"), M(5), W("and"), M(3)>>,
      <<N(250000)>>,
      <<W("villa")>>,
      <<W("zayed")>>,
      <<W("yes")>>,
      <<W("hello")>>,
      <<W("up"), W("to"), N(100), W("sqm")>>,
      <<W("at"), W("least"), N(200), W("sqm")>> }

\* what the classifier call returns; ok = FALSE when the call raises
RouteOutcomes ==
    { [ok |-> FALSE, intent |-> "", entities |-> EmptyPatch],
      [ok |-> TRUE, intent |-> "search_projects",
       entities |-> ("budget_max" :> Some(6000000)) @@ ("unit_type" :> Some("villa")) @@
                    ("location_area" :> Some("New Cairo"))] }

\* route: whether the classifier call returned, when the turn made it
Record(r, st0, m, res) ==
    [msg |-> m, route |-> IF r.llm THEN Some(res.ok) ELSE None,
     before |-> st0, early |-> EarlyState(st0, m), state |-> r.state,
     branch |-> r.branch, intent |-> r.intent, reply |-> r.reply, fault |-> r.fault,
     searched |-> r.searched, searchState |-> r.searchState, selected |-> r.selected,
     idx |-> r.idx, llm |-> r.llm, patch |-> r.patch]

\* the answers and statements sent to the ChatOrchestrator
RagMessages ==
    { <<W("villa")>>, <<W("apartment")>>, <<M(5)>>, <<N(3)>>, <<W("cash")>>, <<W("hello")>> }

\* what the classifier call of the ChatOrchestrator returns
RagRouteOutcomes ==
    { [ok |-> FALSE, intent |-> "", entities |-> EmptyPatch],
      [ok |-> TRUE, intent |-> "general_question", entities |-> EmptyPatch],
      [ok |-> TRUE, intent |-> "search_projects",
       entities |-> ("location_area" :> Some("New Cairo"))],
      [ok |-> TRUE, intent |-> "search_projects",
       entities |-> ("budget_max" :> Some(5000000)) @@ ("unit_type" :> Some("apartment"))],
      [ok |-> TRUE, intent |-> "search_projects",
       entities |-> ("location_area" :> Some("Zayed")) @@ ("budget_max" :> Some(5000000)) @@
                    ("unit_type" :> Some("villa")) @@ ("bedrooms" :> Some(3)) @@
                    ("payment_plan" :> Some("cash"))] }

RagRecord(r, st0, msgs0, m) ==
    [msg |-> m, before |-> st0, msgsBefore |-> msgs0, msgsAfter |-> r.msgs, state |-> r.state,
     mode |-> r.mode, reply |-> r.reply, fault |-> r.fault, searched |-> r.searched,
     searchState |-> r.searchState]

\* two requesters, whose requests may overlap
ReqIds == {1, 2}

\* a requester that has no request in flight; n counts its finished turns
IdleRequest == [pc |-> "idle", conv |-> 0, msg |-> <<>>, copy |-> DEFAULT_STATE, n |-> 0]

Init ==
    /\ state = DEFAULT_STATE
    /\ turn = 0
    /\ last = Record(Response(DEFAULT_STATE, "none", "", Say("none")), DEFAULT_STATE, <<>>,
                     [ok |-> FALSE, intent |-> "", entities |-> EmptyPatch])
    /\ rag_state = RagNewState
    /\ rag_msgs = <<>>
    /\ rag_last = RagRecord(RagResponse(RagNewState, <<>>, "none",
                                        [kind |-> "none", slot |-> "", n |-> 0]),
                            RagNewState, <<>>, <<>>)
    /\ convs = <<>>
    /\ reqs = [r \in ReqIds |-> IdleRequest]

\* POST /chat: one call of handle_chat_message
Chat(m, search_fails, res) ==
    /\ turn < MaxTurns
    /\ last' = Record(handle_chat_message(state, m, search_fails, res), state, m, res)
    /\ state' = last'.state
    /\ turn' = turn + 1
    /\ UNCHANGED <<rag_state, rag_msgs, rag_last, convs, reqs>>

Next == \E m \in Messages, search_fails \in BOOLEAN, res \in RouteOutcomes :
            Chat(m, search_fails, res)

Spec == Init /\ [][Next]_vars

\* one call of ChatOrchestrator.handle_user_message
RagChat(m, res, search_fails) ==
    /\ Len(rag_msgs) < 2 * MaxRagTurns
    /\ rag_last' = RagRecord(handle_user_message(rag_state, rag_msgs, m, res, search_fails),
                             rag_state, rag_msgs, m)
    /\ rag_state' = rag_last'.state
    /\ rag_msgs' = rag_last'.msgsAfter
    /\ UNCHANGED <<state, turn, last, convs, reqs>>

RagNext == \E m \in RagMessages, res \in RagRouteOutcomes, search_fails \in BOOLEAN :
               RagChat(m, res, search_fails)

SpecRag == Init /\ [][RagNext]_vars

\* budget_max values of a conversation before a refinement: unset, zero, below
\* and above the value whose tenth is the minimum step, and values that are no
\* multiple of ten
RefineBudgets ==
    {None, Some(0), Some(100000), Some(250000), Some(1000005), Some(2000000),
     Some(2500000), Some(2500010), Some(3000000), Some(5000000), Some(25000005)}

\* the state of a conversation that has stated a unit type and a location, with
\* the budget_max b
RefineStart(b) ==
    merge_state(EarlyState(DEFAULT_STATE, <<W("apartment"), W("in"), W("new"), W("cairo")>>),
                "budget_max" :> b)

\* the budget refinements without a number
RefineMessages ==
    { <<W("cheaper")>>, <<W("more"), W("expensive")>>, <<W("increase"), W("budget")>> }

InitRefine ==
    /\ state \in {RefineStart(b) : b \in RefineBudgets}
    /\ turn = 0
    /\ last = Record(Response(state, "none", "", Say("none")), state, <<>>,
                     [ok |-> FALSE, intent |-> "", entities |-> EmptyPatch])
    /\ rag_state = RagNewState
    /\ rag_msgs = <<>>
    /\ rag_last = RagRecord(RagResponse(RagNewState, <<>>, "none",
                                        [kind |-> "none", slot |-> "", n |-> 0]),
                            RagNewState, <<>>, <<>>)
    /\ convs = <<>>
    /\ reqs = [r \in ReqIds |-> IdleRequest]

NextRefine == \E m \in RefineMessages, search_fails \in BOOLEAN, res \in RouteOutcomes :
                  Chat(m, search_fails, res)

\* budget refinements of conversations that hold any budget
SpecRefine == InitRefine /\ [][NextRefine]_vars

\* the superlative questions, with and without a project id in the text, and the
\* turns that put project ids into the memory first
UnitMessages ==
    { <<W("details"), W("project"), N(7)>>,
      <<W("compare"), W("alpha"), W("and"), W("gamma")>>,
      <<W("apartment"), W("in"), W("new"), W("cairo"), W("under"), M(5)>>,
      <<W("cheapest"), W("unit")>>,
      <<W("largest"), W("unit")>>,
      <<W("cheapest"), W("unit"), N(7)>>,
      <<W("largest"), W("unit"), N(1)>>,
      <<W("largest"), W("unit"), N(9)>>,
      <<W("largest"), W("unit"), N(2)>>,
      <<W("details"), W("project"), N(2)>>,
      <<W("reset")>> }

NextUnits == \E m \in UnitMessages, search_fails \in BOOLEAN, res \in RouteOutcomes :
                 Chat(m, search_fails, res)

\* conversations about the units of one project
SpecUnits == Init /\ [][NextUnits]_vars

\* classifier results whose budgets are what the model may return: positive,
\* and negative numbers, which _coerce_money passes on as they are
RagBudgetOutcomes ==
    { [ok |-> TRUE, intent |-> "search_projects",
       entities |-> ("location_area" :> Some("New Cairo")) @@ ("budget_max" :> Some(-1000000)) @@
                    ("unit_type" :> Some("apartment"))],
      [ok |-> TRUE, intent |-> "search_projects", entities |-> ("budget_min" :> Some(-5))],
      [ok |-> TRUE, intent |-> "search_projects",
       entities |-> ("location_area" :> Some("Zayed")) @@ ("budget_max" :> Some(5000000)) @@
                    ("unit_type" :> Some("villa")) @@ ("bedrooms" :> Some(3)) @@
                    ("payment_plan" :> Some("cash"))],
      [ok |-> TRUE, intent |-> "general_question", entities |-> EmptyPatch] }

RagBudgetNext == \E m \in RagMessages, res \in RagBudgetOutcomes, search_fails \in BOOLEAN :
                     RagChat(m, res, search_fails)

\* ChatOrchestrator conversations with a classifier that returns any number
SpecRagBudget == Init /\ [][RagBudgetNext]_vars

\* OllamaIntentRouter.route, allowed_intents
AllowedIntents ==
    {"search_projects", "filter_units", "project_details", "compare_projects",
     "schedule_visit", "budget_check", "general_question"}

\* OllamaIntentRouter.route, allowed_slots
AllowedSlots ==
    {"budget_min", "budget_max", "location_area", "unit_type", "bedrooms", "delivery_year",
     "payment_plan", "project_name", "compare_list", "phone", "name"}

\* OllamaIntentRouter.route on the JSON object data that the model returned:
\* the intent defaults to general_question and is replaced by it when it is not
\* allowed; the missing slots are filtered.  The entities of the model's
\* outcomes are the normalised ones.
route(data) ==
    LET intent == IF data.intent = None THEN "general_question" ELSE Val(data.intent)
    IN [ok |-> TRUE,
        intent |-> IF intent \in AllowedIntents THEN intent ELSE "general_question",
        entities |-> data.entities,
        missing_slots |-> SelectSeq2(data.missing_slots, AllowedSlots)]

\* JSON objects of the model: intents and slot names inside and outside the
\* lists, a missing intent, a repeated slot name
RawResults ==
    [intent : {None, Some("search_projects"), Some("general_question"), Some("book_flight"),
               Some("SEARCH_PROJECTS")},
     entities : {EmptyPatch, ("budget_max" :> Some(6000000)) @@ ("unit_type" :> Some("villa"))},
     missing_slots : {<<>>, <<"budget_max">>, <<"location", "budget_max">>,
                      <<"price", "unit_type", "price">>}]

\* messages that no rule and no branch answers, so that the classifier is
\* asked, and messages that fill the slots
RouteMessages ==
    { <<W("hello")>>, <<W("villa")>>, <<W("zayed")>>, <<W("under"), M(5)>>,
      <<W("at"), W("least"), N(200), W("sqm")>>, <<W("reset")>>, <<W("yes")>>,
      <<W("apartment"), W("in"), W("new"), W("cairo"), W("under"), M(5)>> }

NextRoute == \E m \in RouteMessages, search_fails \in BOOLEAN, data \in RawResults :
                 Chat(m, search_fails, route(data))

\* conversations whose classifier returns any JSON object
SpecRoute == Init /\ [][NextRoute]_vars

\* faulty variant: the new row shares the state of the latest conversation
get_or_create_conversation_Shared(table, conversation_id) ==
    IF conversation_id \in DOMAIN table
    THEN [table |-> table, id |-> conversation_id]
    ELSE [table |-> Append(table, IF table = <<>> THEN DEFAULT_STATE ELSE table[Len(table)]),
          id |-> Len(table) + 1]

\* get_or_create_conversation on the table: the row of a known id, else a new
\* row, with the next id, whose state is a copy of DEFAULT_STATE.  Every stored
\* state has the keys of DEFAULT_STATE, so nothing is backfilled.
get_or_create_conversation(table, conversation_id) ==
    IF conversation_id \in DOMAIN table
    THEN [table |-> table, id |-> conversation_id]
    ELSE [table |-> Append(table, DEFAULT_STATE), id |-> Len(table) + 1]

\* the early patch of a message, with its defaults
EarlyPatch(m) ==
    LET WithDefaults(early_patch) ==
            IF DOMAIN early_patch # {}
            THEN SetDefault(SetDefault(early_patch, "confirmed", Some(FALSE)),
                            "chosen_option", None)
            ELSE EmptyPatch
    IN WithDefaults(extract_state_patch(m))

\* the messages of the concurrent requests
StoreMessages ==
    { <<W("villa")>>, <<W("zayed")>>, <<W("under"), M(5)>>, <<W("reset")>>, <<W("hello")>> }

\* the commit of conv.state = new_state by a session whose copy of the row is
\* old_state: the UPDATE is sent when the value differs from the copy, and it
\* replaces the whole state column, whatever the row holds by then
Commit(table, id, old_state, new_state) ==
    IF new_state = old_state THEN table ELSE [table EXCEPT ![id] = new_state]

\* the request reads its conversation (conversation_id 0: none given)
Load(r, conversation_id, m) ==
    /\ reqs[r].pc = "idle" /\ reqs[r].n < MaxReqTurns
    /\ conversation_id \in DOMAIN convs \/ Len(convs) < MaxConvs
    /\ convs' = get_or_create_conversation(convs, conversation_id).table
    /\ reqs' = [reqs EXCEPT ![r] =
                   [pc |-> "loaded", conv |-> get_or_create_conversation(convs, conversation_id).id,
                    msg |-> m,
                    copy |-> convs'[get_or_create_conversation(convs, conversation_id).id],
                    n |-> reqs[r].n]]
    /\ UNCHANGED <<state, turn, last, rag_state, rag_msgs, rag_last>>

\* the first update_conversation_state of the turn: the early patch is merged
\* into the session's copy, committed, and the copy is refreshed from the row
Merge(r) ==
    /\ reqs[r].pc = "loaded"
    /\ convs' = IF EarlyPatch(reqs[r].msg) = EmptyPatch THEN convs
                ELSE Commit(convs, reqs[r].conv, reqs[r].copy,
                            merge_state(reqs[r].copy, EarlyPatch(reqs[r].msg)))
    /\ reqs' = [reqs EXCEPT ![r].pc = "merged",
                            ![r].copy = IF EarlyPatch(reqs[r].msg) = EmptyPatch
                                        THEN reqs[r].copy ELSE convs'[reqs[r].conv]]
    /\ UNCHANGED <<state, turn, last, rag_state, rag_msgs, rag_last>>

\* the rest of the turn, on the session's copy; its updates are committed
Finish(r, search_fails, res) ==
    /\ reqs[r].pc = "merged"
    /\ convs' = Commit(convs, reqs[r].conv, reqs[r].copy,
                       handle_chat_message(reqs[r].copy, reqs[r].msg, search_fails, res).state)
    /\ reqs' = [reqs EXCEPT ![r].pc = "idle", ![r].n = reqs[r].n + 1,
                            ![r].copy = convs'[reqs[r].conv]]
    /\ UNCHANGED <<state, turn, last, rag_state, rag_msgs, rag_last>>

StoreNext ==
    \/ \E r \in ReqIds, c \in 0..MaxConvs, m \in StoreMessages : Load(r, c, m)
    \/ \E r \in ReqIds : Merge(r)
    \/ \E r \in ReqIds, search_fails \in BOOLEAN, res \in RouteOutcomes :
           Finish(r, search_fails, res)

\* concurrent requests on the conversations of the table
SpecStore == Init /\ [][StoreNext]_vars

\* area_min values of a conversation before a refinement, in hundredths of a
\* square metre: unset, zero, below, at and above the floor of 30, and values
\* whose step ends just below and just at the floor
RefineAreas ==
    {None, Some(0), Some(Sqm(20)), Some(Sqm(30)), Some(Sqm(35)), Some(Sqm(40) - 1),
     Some(Sqm(40)), Some(Sqm(45)), Some(Sqm(100)), Some(Sqm(200))}

\* the state of a conversation that has stated a unit type and a location, with
\* the area_min a
AreaStart(a) ==
    merge_state(EarlyState(DEFAULT_STATE, <<W("apartment"), W("in"), W("new"), W("cairo")>>),
                "area_min" :> a)

\* the area refinements
AreaMessages ==
    { <<W("smaller")>>, <<W("less"), W("space")>>, <<W("bigger")>> }

InitArea ==
    /\ state \in {AreaStart(a) : a \in RefineAreas}
    /\ turn = 0
    /\ last = Record(Response(state, "none", "", Say("none")), state, <<>>,
                     [ok |-> FALSE, intent |-> "", entities |-> EmptyPatch])
    /\ rag_state = RagNewState
    /\ rag_msgs = <<>>
    /\ rag_last = RagRecord(RagResponse(RagNewState, <<>>, "none",
                                        [kind |-> "none", slot |-> "", n |-> 0]),
                            RagNewState, <<>>, <<>>)
    /\ convs = <<>>
    /\ reqs = [r \in ReqIds |-> IdleRequest]

NextArea == \E m \in AreaMessages, search_fails \in BOOLEAN, res \in RouteOutcomes :
                Chat(m, search_fails, res)

\* area refinements of conversations that hold any area_min
SpecArea == InitArea /\ [][NextArea]_vars

\* comparison messages, by option number, by amount and by name, after a
\* search that stored results
CompareMessages ==
    { <<W("apartment"), W("in"), W("new"), W("cairo"), W("under"), M(5)>>,
      <<W("between"), N(1), W("and"), N(3)>>,
      <<W("between"), M(5), W("and"), M(3)>>,
      <<W("compare"), N(1), W("and"), N(2)>>,
      <<W("compare"), W("alpha"), W("and"), W("gamma")>>,
      <<W("compare"), N(2), W("and"), N(9)>>,
      <<W("villa")>> }

NextCompare == \E m \in CompareMessages, search_fails \in BOOLEAN, res \in RouteOutcomes :
                   Chat(m, search_fails, res)

\* conversations of searches and comparisons
SpecCompare == Init /\ [][NextCompare]_vars

\* answers to the missing-slot questions: a location, amounts written "5M",
\* as a bare number and with a lead word, and unit types
SlotMessages ==
    { <<W("hello")>>, <<W("zayed")>>, <<W("villa")>>, <<W("apartment")>>,
      <<M(5)>>, <<N(5000000)>>, <<W("under"), M(5)>> }

NextSlots == \E m \in SlotMessages, search_fails \in BOOLEAN, res \in RouteOutcomes :
                 Chat(m, search_fails, res)

\* conversations of a user who answers the questions
SpecSlots == Init /\ [][NextSlots]_vars

\* the statements and answers of a long conversation with the ChatOrchestrator
LongRagMessages == { <<W("hello")>>, <<M(5)>>, <<W("villa")>> }

\* what the classifier returns in it: no entity, the location, every slot
LongRagOutcomes ==
    {res \in RagRouteOutcomes :
        /\ res.ok
        /\ DOMAIN res.entities \in {{}, {"location_area"},
                                    {"location_area", "budget_max", "unit_type", "bedrooms",
                                     "payment_plan"}}}

\* one call of ChatOrchestrator.handle_user_message in a conversation of up to
\* MaxLongTurns turns
RagLongChat(m, res, search_fails) ==
    /\ Len(rag_msgs) < 2 * MaxLongTurns
    /\ rag_last' = RagRecord(handle_user_message(rag_state, rag_msgs, m, res, search_fails),
                             rag_state, rag_msgs, m)
    /\ rag_state' = rag_last'.state
    /\ rag_msgs' = rag_last'.msgsAfter
    /\ UNCHANGED <<state, turn, last, convs, reqs>>

RagLongNext == \E m \in LongRagMessages, res \in LongRagOutcomes, search_fails \in BOOLEAN :
                   RagLongChat(m, res, search_fails)

\* conversations whose log outgrows the ten messages the orchestrator reads
SpecRagLong == Init /\ [][RagLongNext]_vars

\* the amounts of a range: bare and with the suffix m
RangeAmounts == {N(3), M(3), M(5), N(400)}

\* the areas of a range
RangeAreas == {N(100), N(150)}

\* a range of the amounts a and b, in the form "between a and b" or "a to b"
RangeMessage(form, a, b) ==
    IF form = "between" THEN <<W("between"), a, W("and"), b>> ELSE <<a, W("to"), b>>

\* a range of areas, with the unit after the second
AreaRangeMessage(form, a, b) == Append(RangeMessage(form, a, b), W("sqm"))

RangeForms == {"between", "to"}

RangeMessages ==
    {RangeMessage(form, a, b) : form \in RangeForms, a \in RangeAmounts, b \in RangeAmounts}
    \cup {AreaRangeMessage(form, a, b) : form \in RangeForms, a \in RangeAreas, b \in RangeAreas}

NextRanges == \E m \in RangeMessages, search_fails \in BOOLEAN, res \in RouteOutcomes :
                  Chat(m, search_fails, res)

\* conversations of messages that state a range
SpecRanges == Init /\ [][NextRanges]_vars

\* messages with and without feature words, among statements, a selection and
\* a reset
FeatureMessages ==
    { <<W("villa"), W("with"), W("balcony")>>, <<W("terrace")>>,
      <<W("balcony"), W("and"), W("terrace")>>, <<W("hello")>>, <<W("zayed")>>,
      <<W("apartment"), W("in"), W("new"), W("cairo"), W("under"), M(5)>>,
      <<W("option"), N(1)>>, <<W("reset")>> }

NextFeatures == \E m \in FeatureMessages, search_fails \in BOOLEAN, res \in RouteOutcomes :
                    Chat(m, search_fails, res)

\* conversations that mention unit features
SpecFeatures == Init /\ [][NextFeatures]_vars

\* classifier outcomes whose entities carry an empty string, which route and
\* _normalize_entities pass on as they are, next to the outcomes of SpecRag
EmptyStringOutcomes ==
    { [ok |-> TRUE, intent |-> "search_projects",
       entities |-> ("location_area" :> Some(""))],
      [ok |-> TRUE, intent |-> "search_projects",
       entities |-> ("unit_type" :> Some("")) @@ ("budget_max" :> Some(5000000))] }

RagEmptyNext == \E m \in RagMessages, res \in RagRouteOutcomes \cup EmptyStringOutcomes,
                   search_fails \in BOOLEAN :
                    RagChat(m, res, search_fails)

\* ChatOrchestrator conversations with a classifier that may return empty
\* strings
SpecRagEmpty == Init /\ [][RagEmptyNext]_vars

----------------------------------------------------------------------------
(* services/compare_service.py *)

\* the figures f of the unit types of p that are numbers
UnitFigures(p, f) ==
    {p.unit_types[i][f] : i \in {j \in 1..Len(p.unit_types) : f \in DOMAIN p.unit_types[j]}}

\* _min_max of a list of figures: (None, None) when none is a number
_min_max(nums) ==
    IF nums = {} THEN [min |-> None, max |-> None]
    ELSE [min |-> Some(CHOOSE x \in nums : \A y \in nums : x <= y),
          max |-> Some(CHOOSE x \in nums : \A y \in nums : x >= y)]

summarize_project(p) ==
    [id |-> p.id, name |-> p.project_name, location |-> p.area,
     min_price |-> _min_max(UnitFigures(p, "price")).min,
     max_price |-> _min_max(UnitFigures(p, "price")).max,
     min_area |-> _min_max(UnitFigures(p, "area")).min,
     max_area |-> _min_max(UnitFigures(p, "area")).max,
     unit_types_count |-> Len(p.unit_types)]

\* min(s, key=...) and max(s, key=...) of Python: the first item of the list
\* with the least (greatest) key
FirstMin(s, Key(_)) ==
    s[CHOOSE i \in 1..Len(s) : /\ \A j \in 1..Len(s) : Key(s[i]) <= Key(s[j])
                               /\ \A j \in 1..(i - 1) : Key(s[j]) > Key(s[i])]

FirstMax(s, Key(_)) ==
    s[CHOOSE i \in 1..Len(s) : /\ \A j \in 1..Len(s) : Key(s[i]) >= Key(s[j])
                               /\ \A j \in 1..(i - 1) : Key(s[j]) < Key(s[i])]

\* a difference statement that names two projects, and one that names none
Names(text, a, b) == [text |-> text, a |-> a.name, b |-> b.name]
NoNames(text) == [text |-> text, a |-> <<>>, b |-> <<>>]

\* compare_projects: the summaries and the three difference statements; the
\* statement about variety is made for two projects or more
compare_projects(projects) ==
    LET summaries == [i \in 1..Len(projects) |-> summarize_project(projects[i])]
        PriceKey(s) == Val(s.min_price)
        AreaKey(s) == Val(s.max_area)
        CountKey(s) == s.unit_types_count
        priced == SelectSeq(summaries, LAMBDA s : s.min_price # None)
        sized == SelectSeq(summaries, LAMBDA s : s.max_area # None)
    IN [summaries |-> summaries,
        differences |->
            ("price" :>
                IF Len(priced) >= 2
                THEN Names("starts_cheaper", FirstMin(priced, PriceKey),
                           FirstMax(priced, PriceKey))
                ELSE NoNames("not_enough_pricing_data")) @@
            ("unit_sizes" :>
                IF Len(sized) >= 2
                THEN Names("larger_max_unit_sizes", FirstMax(sized, AreaKey),
                           FirstMin(sized, AreaKey))
                ELSE NoNames("not_enough_area_data")) @@
            (IF Len(summaries) >= 2
             THEN "variety" :> Names("more_unit_options", FirstMax(summaries, CountKey),
                                     FirstMin(summaries, CountKey))
             ELSE EmptyPatch)]

\* projects as get_projects_with_units returns them: with distinct figures,
\* with the same figures, with a unit type that has no figure, and with no
\* unit type
ComparedProjects ==
    { [id |-> 11, project_name |-> <<"north">>, area |-> "New Cairo",
       unit_types |-> << [id |-> 1, unit_type |-> "Apartment", area |-> Sqm(100), price |-> 3000000],
                         [id |-> 2, unit_type |-> "Villa", area |-> Sqm(300), price |-> 9000000] >>],
      [id |-> 12, project_name |-> <<"south">>, area |-> "New Cairo",
       unit_types |-> << [id |-> 3, unit_type |-> "Apartment", area |-> Sqm(120), price |-> 3000000],
                         [id |-> 4, unit_type |-> "Villa", area |-> Sqm(300), price |-> 8000000] >>],
      [id |-> 13, project_name |-> <<"east">>, area |-> "Sheikh Zayed",
       unit_types |-> << [id |-> 5, unit_type |-> "Villa", area |-> Sqm(350), price |-> 8000000] >>],
      [id |-> 14, project_name |-> <<"west">>, area |-> "Sheikh Zayed",
       unit_types |-> << [id |-> 6, unit_type |-> "Chalet"] >>],
      [id |-> 15, project_name |-> <<"centre">>, area |-> "Sheikh Zayed",
       unit_types |-> <<>>] }

\* lists of two and of three different projects
ComparedLists ==
    {<<p, q>> : p \in ComparedProjects, q \in ComparedProjects} \cup
    {<<p, q, r>> : p \in ComparedProjects, q \in ComparedProjects, r \in ComparedProjects}

InitCompareProjects ==
    /\ state = DEFAULT_STATE
    /\ turn = 0
    /\ last \in {[projects |-> ps, result |-> None] :
                    ps \in {l \in ComparedLists :
                               \A i \in 1..Len(l), j \in 1..Len(l) : i # j => l[i] # l[j]}}
    /\ rag_state = RagNewState
    /\ rag_msgs = <<>>
    /\ rag_last = RagRecord(RagResponse(RagNewState, <<>>, "none",
                                        [kind |-> "none", slot |-> "", n |-> 0]),
                            RagNewState, <<>>, <<>>)
    /\ convs = <<>>
    /\ reqs = [r \in ReqIds |-> IdleRequest]

\* the comparison of the projects of the list
CompareProjects ==
    /\ last.result = None
    /\ last' = [last EXCEPT !.result = Some(compare_projects(last.projects))]
    /\ turn' = turn + 1
    /\ UNCHANGED <<state, rag_state, rag_msgs, rag_last, convs, reqs>>

\* compare_projects on lists of projects
SpecCompareProjects == InitCompareProjects /\ [][CompareProjects]_vars

\* The two services keep separate tables and share no state: a behaviour
\* follows the conversation of one of them.
ServicesNext ==
    \/ rag_last.mode = "none" /\ Next
    \/ turn = 0 /\ RagNext

SpecServices == Init /\ [][ServicesNext]_vars

----------------------------------------------------------------------------
(* Properties *)

\* the guards of the branches, read on the message and the state after the
\* early parse
MatchesSelection(m) == extract_option_index(m) # None
MatchesRefine(m, st) == DOMAIN build_refine_patch(m, st) # {}
MatchesSuperlative(m) == _unit_intent(m) # None
MatchesCompare(m) == _is_compare(m)
MatchesDetails(m) == _looks_like_details_request(m)

BranchReplies(b) ==
    CASE b = "selection" -> {"selected", "choose_between"}
      [] b = "refine" -> {"question", "results", "no_matches", "search_error"}
      [] b = "superlative" -> {"which_project", "project_not_found", "no_unit_data",
                               "cheapest_unit", "largest_unit"}
      [] b = "compare" -> {"tell_me_two_projects", "could_not_resolve",
                           "not_enough_projects", "compare_summary"}
      [] b = "details" -> {"which_one", "tell_me_the_project", "project_details"}
      [] b = "default" -> {"question", "results", "no_matches", "search_error", "fault"}
      [] OTHER -> {"none"}

SlotEmpty(st, slot) ==
    \/ st[slot] = None
    \/ slot \in {"location", "unit_type"} /\ st[slot] = Some("")
    \/ slot = "budget_max" /\ st[slot] = Some(0)

RequiredSlots == <<"location", "budget_max", "unit_type">>

\* the first slot of the order that satisfies Empty, or "" when none does
FirstEmpty(order, Empty(_)) ==
    LET at == {i \in 1..Len(order) : Empty(order[i])}
    IN IF at = {} THEN "" ELSE order[SetMin(at)]

RagRequired == <<"location_area", "budget_max", "unit_type">>
RagNiceToHave == <<"bedrooms", "payment_plan">>
RagSlotEmpty(slot) ==
    \/ rag_state[slot] = None
    \/ slot \in {"location_area", "unit_type", "payment_plan"} /\ rag_state[slot] = Some("")

C3_SearchOnlyWithRequiredSlots ==
    /\ last.searched =>
          \A i \in 1..Len(RequiredSlots) : ~SlotEmpty(last.searchState, RequiredSlots[i])
    /\ (last.branch \in {"refine", "default"} /\ ~last.fault /\
        \E i \in 1..Len(RequiredSlots) : SlotEmpty(state, RequiredSlots[i])) =>
          last.reply.kind = "question" /\ ~last.searched
    /\ rag_last.searched =>
          \A i \in 1..Len(RagRequired) :
              /\ rag_last.searchState[RagRequired[i]] # None
              /\ RagRequired[i] # "budget_max" => rag_last.searchState[RagRequired[i]] # Some("")
    /\ (~rag_last.fault /\ rag_last.mode # "none" /\
        \E i \in 1..Len(RagRequired) : RagSlotEmpty(RagRequired[i])) =>
          rag_last.reply.kind = "question" /\ ~rag_last.searched

\* a refinement of a complete state has searched
C3_Witness ==
    /\ last.branch = "refine" /\ last.searched
    /\ last.reply.kind = "results"

\* patches given to merge_state: explicit nulls, new values, a new key, the
\* reset patch with its internal flag, and the empty patch
PatchSamples ==
    { EmptyPatch,
      ResetPatch,
      ("location" :> None),
      ("budget_max" :> None) @@ ("budget_min" :> Some(1000000)),
      ("location" :> Some("New Cairo")) @@ ("unit_type" :> None) @@ ("area_min" :> None),
      ("bedrooms" :> Some(3)) @@ ("confirmed" :> Some(TRUE)) @@ ("chosen_option" :> None),
      ("last_results" :> <<>>) @@ ("last_project_ids" :> <<7>>) }

\* C4: merging a patch gives every key of the patch the patch's value, an
\* explicit null included, and keeps the old value of every key that the patch
\* does not have; the internal flag keys of a patch are not state keys and are
\* not stored.
C4_MergeState ==
    \A patch \in PatchSamples :
        LET new_state == merge_state(state, patch)
            keys == DOMAIN patch \ InternalKeys
        IN /\ DOMAIN new_state = DOMAIN state \cup keys
           /\ \A k \in keys : new_state[k] = patch[k]
           /\ \A k \in DOMAIN state \ keys : new_state[k] = state[k]

\* a reset turn has cleared a location that was set, by the explicit null of
\* the reset patch
C4_Witness ==
    /\ last.branch = "refine" /\ IsResetText(last.msg)
    /\ last.before.location # None /\ last.before.budget_max # None
    /\ state.location = None /\ state.budget_max = None

\* C5 as stated: in every reachable state budget_min <= budget_max and
\* area_min <= area_max, whenever both bounds are present.
C5_BoundsOrdered ==
    /\ (state.budget_min # None /\ state.budget_max # None) =>
          Val(state.budget_min) <= Val(state.budget_max)
    /\ (state.area_min # None /\ state.area_max # None) =>
          Val(state.area_min) <= Val(state.area_max)

\* C6 as stated: a turn that consults the classifier returns and merges a
\* patch that has the extractor's value for every key the extractor set.
C6_ExtractorWins ==
    (turn > 0 /\ last.llm) =>
        /\ ~last.fault
        /\ \A k \in DOMAIN extract_state_patch(last.msg) :
              k \in DOMAIN last.patch /\ last.patch[k] = extract_state_patch(last.msg)[k]

\* the selection of a turn is within 1..len(last_results)
SelectedInRange ==
    /\ turn > 0 /\ last.branch = "selection" /\ last.idx # None
    /\ 0 <= Val(last.idx) /\ Val(last.idx) < Len(last.before.last_results)

\* C7: a selection with n in 1..len(last_results) ends with confirmed = true
\* and chosen_option = last_results[n-1], returns that listing as selected, and
\* has the listing's project id at the front of last_project_ids, followed by
\* the other remembered ids in their previous order.
C7_SelectionInRange ==
    SelectedInRange =>
        LET chosen == last.before.last_results[Val(last.idx) + 1]
        IN /\ state.confirmed = Some(TRUE)
           /\ state.chosen_option = Some(chosen)
           /\ last.selected = Some(chosen)
           /\ ~last.fault
           /\ state.last_project_ids =
                 <<chosen.project_id>> \o
                 SelectSeq(last.before.last_project_ids, LAMBDA x : x # chosen.project_id)
           /\ state.last_results = last.before.last_results

\* a selection has moved a project id from behind to the front
C7_Witness ==
    /\ SelectedInRange
    /\ Len(last.before.last_project_ids) >= 2
    /\ state.last_project_ids[1] # last.before.last_project_ids[1]

\* a message that is nothing but a selection reference: a number, an ordinal,
\* or a selection verb with a number
BareSelectionReference(m) ==
    \/ Len(m) = 1 /\ IsNum(m[1])
    \/ Len(m) = 1 /\ \E i \in 1..Len(OrdinalWords) : m[1].w = OrdinalWords[i][1]
    \/ Len(m) = 2 /\ m[1].w \in SelectVerbs /\ IsNum(m[2])

\* C8 as stated: the selection branch is taken only for a bare selection
\* reference and only when a prior result list exists.
C8_SelectionOnlyWhenBareAndListed ==
    (turn > 0 /\ last.branch = "selection") =>
        /\ BareSelectionReference(last.msg)
        /\ last.before.last_results # <<>>

\* the selection of a turn is outside 1..N, with N = len(last_results) >= 1
SelectedOutOfRange ==
    /\ turn > 0 /\ last.branch = "selection" /\ last.idx # None
    /\ Len(last.before.last_results) >= 1
    /\ Val(last.idx) >= Len(last.before.last_results)

\* C9: a selection outside 1..N, N >= 1, replies with the request to choose
\* between 1 and N, selects nothing, leaves last_results and last_project_ids
\* unchanged and raises no fault.
C9_SelectionOutOfRange ==
    SelectedOutOfRange =>
        /\ last.reply.kind = "choose_between"
        /\ last.reply.n = Len(last.before.last_results)
        /\ ~last.fault
        /\ last.selected = None
        /\ state.chosen_option = None
        /\ state.confirmed # Some(TRUE)
        /\ state.last_results = last.before.last_results
        /\ state.last_project_ids = last.before.last_project_ids

\* an out-of-range selection after an earlier selection had been confirmed
C9_Witness ==
    /\ SelectedOutOfRange
    /\ last.before.confirmed = Some(TRUE)

\* C10 as stated: after a search turn the stored last_results is the list that
\* the reply showed, so that option N of the reply is last_results[N-1].
C10_StoredListIsShownList ==
    (turn > 0 /\ last.searched /\ last.reply.kind = "results") =>
        /\ Len(state.last_results) = last.reply.n
        /\ \A n \in 1..last.reply.n : state.last_results[n] = last.reply.options[n]

----------------------------------------------------------------------------
(* explicit project references *)

\* the turn's message is "project <id>" and a listing of the last shown
\* results has that project id
C11_ProjectIdTurn ==
    /\ turn > 0
    /\ Len(last.msg) = 2 /\ last.msg[1] = W("project") /\ IsNum(last.msg[2])
    /\ \E i \in 1..Len(last.before.last_results) :
           last.before.last_results[i].project_id = last.msg[2].n

\* C11: a turn "project <id>", where <id> is the project id of a listing of the
\* non-empty last_results, selects that listing: confirmed = true and
\* chosen_option is the listing with that project id.
C11_ProjectIdSelects ==
    C11_ProjectIdTurn =>
        /\ ~last.fault
        /\ state.confirmed = Some(TRUE)
        /\ \E i \in 1..Len(last.before.last_results) :
               /\ last.before.last_results[i].project_id = last.msg[2].n
               /\ state.chosen_option = Some(last.before.last_results[i])

----------------------------------------------------------------------------
(* comparison turns *)

\* a comparison turn with two to four numeric tokens and option-comparison
\* phrasing
C12_NumericCompareTurn ==
    /\ turn > 0 /\ last.branch = "compare"
    /\ Len(_extract_ids(last.msg)) \in 2..4
    /\ \/ Contains(last.msg, "compare") \/ Contains(last.msg, "between")
       \/ InnerWord(last.msg, "vs") \/ Contains(last.msg, "versus")

\* every numeric token of the turn is in 1..len(last_project_ids)
C12_TokensInRange ==
    \A i \in 1..Len(_extract_ids(last.msg)) :
        /\ 1 <= _extract_ids(last.msg)[i]
        /\ _extract_ids(last.msg)[i] <= Len(last.before.last_project_ids)

\* the projects a numeric comparison turn is about
C12_ComparedIds ==
    IF C12_TokensInRange
    THEN [i \in 1..Len(_extract_ids(last.msg)) |->
              last.before.last_project_ids[_extract_ids(last.msg)[i]]]
    ELSE _extract_ids(last.msg)

\* C12: in a comparison turn with two to four numeric tokens and
\* option-comparison phrasing, token k stands for last_project_ids[k-1] when
\* every token is in 1..len(last_project_ids); the tokens are literal project ids
\* only when nothing is remembered or a token is out of that range.  The
\* projects compared, and remembered afterwards, are the existing ones of them.
C12_TokensAreOptionIndexes ==
    C12_NumericCompareTurn =>
        /\ ~last.fault
        /\ IF Len(get_projects_with_units(C12_ComparedIds)) >= 2
           THEN /\ last.reply.kind = "compare_summary"
                /\ last.reply.options = get_projects_with_units(C12_ComparedIds)
                /\ state.last_project_ids =
                      [i \in 1..Len(last.reply.options) |-> last.reply.options[i].id]
           ELSE last.reply.kind = "not_enough_projects"

\* two remembered projects were compared by their positions, and they are not
\* the projects with those database ids
C12_Witness ==
    /\ C12_NumericCompareTurn /\ C12_TokensInRange
    /\ last.reply.kind = "compare_summary"
    /\ C12_ComparedIds # _extract_ids(last.msg)
    /\ state.last_project_ids = C12_ComparedIds

\* a comparison turn took its numbers as project ids because one of them is
\* beyond the remembered list
C12_WitnessLiteral ==
    /\ C12_NumericCompareTurn /\ ~C12_TokensInRange
    /\ last.before.last_project_ids # <<>>
    /\ last.reply.kind = "compare_summary"
    /\ state.last_project_ids = _extract_ids(last.msg)

\* the project ids that the comparison turn resolved, at most four
C13_Resolved ==
    SubSeq(CompareIds(last.early, last.msg).ids, 1,
           Min2(4, Len(CompareIds(last.early, last.msg).ids)))

\* a comparison turn that resolved fewer than two project ids, or for which
\* fewer than two of the resolved projects exist
C13_TooFewProjects ==
    /\ turn > 0 /\ last.branch = "compare"
    /\ \/ Len(C13_Resolved) < 2
       \/ Cardinality({i \in 1..Len(C13_Resolved) :
                          \E j \in 1..Len(Projects) :
                              Projects[j].id = C13_Resolved[i]}) < 2

\* C13: a comparison turn that resolves fewer than two project identifiers, or
\* for which fewer than two of the resolved projects exist, answers with a
\* clarification request and leaves last_project_ids and last_results as they
\* were.
C13_CompareClarifies ==
    C13_TooFewProjects =>
        /\ ~last.fault
        /\ last.reply.kind \in {"tell_me_two_projects", "could_not_resolve",
                                "not_enough_projects"}
        /\ state.last_project_ids = last.before.last_project_ids
        /\ state.last_results = last.before.last_results

\* a comparison named one project that exists and one that does not, while
\* projects were remembered from a search
C13_Witness ==
    /\ C13_TooFewProjects
    /\ Len(C13_Resolved) = 2
    /\ \E i \in 1..2 : \E j \in 1..Len(Projects) : Projects[j].id = C13_Resolved[i]
    /\ last.before.last_project_ids # <<>>
    /\ last.before.last_results # <<>>
    /\ last.reply.kind = "not_enough_projects"

----------------------------------------------------------------------------
(* the remembered projects *)

\* C14: in every reachable conversation state last_project_ids holds no
\* project id twice.
C14_NoDuplicateProjectIds ==
    \A i, j \in 1..Len(state.last_project_ids) :
        state.last_project_ids[i] = state.last_project_ids[j] => i = j

\* ids is the list of the project ids of the rows, each id once, in the order
\* of its first row
C15_IdsOfRows(ids, rows) ==
    /\ {ids[i] : i \in 1..Len(ids)} = {rows[i].project_id : i \in 1..Len(rows)}
    /\ \A i, j \in 1..Len(ids) : i < j =>
           \E a \in 1..Len(rows) :
               /\ rows[a].project_id = ids[i]
               /\ \A b \in 1..a : rows[b].project_id # ids[j]

\* the turn ran a search that returned
C15_Searched == turn > 0 /\ last.searched /\ last.reply.kind # "search_error"

\* the turn compared projects
C15_Compared == turn > 0 /\ last.branch = "compare" /\ last.reply.kind = "compare_summary"

\* the turn described a project
C15_Detailed == turn > 0 /\ last.branch = "details" /\ last.reply.kind = "project_details"

\* the turn answered a superlative question about a project
C15_Superlative ==
    /\ turn > 0 /\ last.branch = "superlative"
    /\ last.reply.kind \notin {"which_project", "project_not_found"}

\* C15: a turn that resolves projects replaces last_project_ids by the ids it
\* resolved, in resolution order, and what was remembered before is discarded:
\* after a search the project ids of the new last_results in order, after a
\* successful comparison the compared projects, after a details or superlative
\* turn about project P the list [P].
C15_ResolvedIdsReplaceMemory ==
    /\ C15_Searched => C15_IdsOfRows(state.last_project_ids, state.last_results)
    /\ C15_Compared =>
           state.last_project_ids =
               [i \in 1..Len(last.reply.options) |-> last.reply.options[i].id]
    /\ C15_Detailed => state.last_project_ids = <<last.reply.n>>
    /\ C15_Superlative =>
           state.last_project_ids =
               << IF _extract_ids(last.msg) # <<>> THEN _extract_ids(last.msg)[1]
                  ELSE last.before.last_project_ids[1] >>

\* a details turn about one project replaced two remembered projects
C15_Witness ==
    /\ C15_Detailed
    /\ Len(last.before.last_project_ids) >= 2
    /\ state.last_project_ids = <<last.reply.n>>

----------------------------------------------------------------------------
(* reset *)

\* the turn was answered by the reset of the refinement branch
C16_ResetTurn == turn > 0 /\ last.branch = "refine" /\ IsResetText(last.msg)

\* slot k of the state holds nothing
C16_Cleared(k) ==
    \/ k \notin DOMAIN state
    \/ state[k] = None
    \/ (k = "features" /\ state[k] = Some({}))

\* C16: after a reset turn every preference slot is empty (location,
\* budget_min, budget_max, area_min, area_max, unit_type, bedrooms, floor_type,
\* features), confirmed is false, chosen_option is null, last_results and
\* last_project_ids are empty, and the turn is answered with the first
\* missing-slot question without a search.
C16_ResetClearsEverySlot ==
    C16_ResetTurn =>
        /\ \A k \in {"location", "budget_min", "budget_max", "area_min", "area_max",
                     "unit_type", "bedrooms", "floor_type", "features"} : C16_Cleared(k)
        /\ state.confirmed = Some(FALSE)
        /\ state.chosen_option = None
        /\ state.last_results = <<>>
        /\ state.last_project_ids = <<>>
        /\ last.reply.kind = "question" /\ last.reply.slot = "location"
        /\ ~last.searched

----------------------------------------------------------------------------
(* failures *)

\* every key of the state before the turn has its value of then in the stored
\* state
C17_StoredAsBefore ==
    \A k \in DOMAIN last.before : k \in DOMAIN state /\ state[k] = last.before[k]

\* C17: a turn that fails leaves the stored conversation state as it was
\* before the turn; no part of a patch of the failed turn is stored.
C17_FailedTurnKeepsState ==
    (turn > 0 /\ last.fault) => C17_StoredAsBefore

\* C18: no turn ends in a fault; every turn returns a response with a reply.
C18_EveryTurnReplies ==
    turn > 0 => (~last.fault /\ last.reply.kind \notin {"none", "fault"})

\* C19: when the classifier call of a turn fails, the classifier contributes
\* no patch (the patch of the turn is the extractor's) and the turn still ends
\* with a reply.
C19_ClassifierFailureFallsBack ==
    (turn > 0 /\ last.route = Some(FALSE)) =>
        /\ ~last.fault
        /\ last.reply.kind \notin {"none", "fault"}
        /\ last.patch = extract_state_patch(last.msg)

\* C20: when the search of a turn raises, the turn answers with the
\* search-failed message and the conversation state is as it was before the
\* turn, last_results and last_project_ids included.
C20_SearchFailureKeepsState ==
    (turn > 0 /\ last.searched /\ last.reply.kind = "search_error") =>
        /\ ~last.fault
        /\ last.intent = "error"
        /\ \A k \in DOMAIN last.before : k \in DOMAIN state /\ state[k] = last.before[k]

----------------------------------------------------------------------------
(* the stored state *)

\* C24: applying a patch twice gives the state that applying it once gives, for
\* every reachable state, every sample patch and the patch of the last turn.
C24_MergeIdempotent ==
    \A patch \in PatchSamples \cup {last.patch} :
        merge_state(merge_state(state, patch), patch) = merge_state(state, patch)

\* a turn has stored a patch that changed the state, and a sample patch with a
\* list value and one with explicit nulls would each change it again
C24_Witness ==
    /\ last.patch # EmptyPatch /\ state # last.before
    /\ state.location # None /\ state.last_project_ids # <<7>>
    /\ merge_state(state, ("last_results" :> <<>>) @@ ("last_project_ids" :> <<7>>)) # state
    /\ merge_state(state, ResetPatch) # state

\* the patch the refinement step of the last turn built
C23_RefinePatch == build_refine_patch(last.msg, last.early)

\* C23: no stored conversation state has an internal control flag (a key of
\* the form __name__) as a key, although refinement patches carry such flags;
\* merging a patch that carries one stores none.
C23_NoInternalFlagStored ==
    /\ DOMAIN state \cap InternalKeys = {}
    /\ \A patch \in PatchSamples \cup {C23_RefinePatch} :
           DOMAIN merge_state(state, patch) \cap InternalKeys = {}

\* a reset turn has built a patch with the flag and stored the patch's nulls
C23_Witness ==
    /\ last.branch = "refine"
    /\ "__did_reset__" \in DOMAIN C23_RefinePatch
    /\ last.before.location # None /\ state.location = None
    /\ "__did_reset__" \notin DOMAIN state

----------------------------------------------------------------------------
(* budget refinements *)

C30_Cheaper == turn > 0 /\ last.msg = <<W("cheaper")>>

C30_MoreExpensive ==
    turn > 0 /\ last.msg \in {<<W("more"), W("expensive")>>, <<W("increase"), W("budget")>>}

\* the step of the code: a tenth of budget_max, 250,000 at least
C30_Step(bm) == Max2(bm \div 10, 250000)

----------------------------------------------------------------------------
(* the filtered retrieval *)

\* the result limits tried: small ones that cut the list, and the handler's
MaxLimit == 3
C28_Limits == (1..MaxLimit) \cup {10}

\* the listings of the database, joined with their projects
C28_Listings == {search_db(DEFAULT_STATE, Len(Units))[i] : i \in 1..Len(Units)}

\* the listing r passes every filter that the state st has
C28_Passes(r, st) ==
    /\ (Get(st, "location") # None => ILike(r.location, Val(st.location)))
    /\ (Get(st, "unit_type") # None => ILike(r.unit_type, Val(st.unit_type)))
    /\ (Get(st, "budget_min") # None => r.unit_price >= Val(st.budget_min))
    /\ (Get(st, "budget_max") # None => r.unit_price <= Val(st.budget_max))
    /\ (Get(st, "area_min") # None => r.unit_area >= Val(st.area_min))
    /\ (Get(st, "area_max") # None => r.unit_area <= Val(st.area_max))

\* distance of a listing's price from the maximum budget of the state
C28_Distance(r, st) == Abs(r.unit_price - Val(st.budget_max))

\* the listing a is not ranked after the listing b
C28_NotAfter(a, b, st) ==
    \/ C28_Distance(a, st) < C28_Distance(b, st)
    \/ (C28_Distance(a, st) = C28_Distance(b, st) /\ a.unit_area >= b.unit_area)

\* the rows are the first ones, in rank order, of all listings that pass the
\* filters of st, and at most limit of them
C28_FilteredThenRankedThenCut(rows, st, limit) ==
    LET returned == {rows[i] : i \in 1..Len(rows)}
        passing == {r \in C28_Listings : C28_Passes(r, st)}
    IN /\ returned \subseteq passing
       /\ Len(rows) = Min2(limit, Cardinality(passing))
       /\ Cardinality(returned) = Len(rows)
       /\ \A i, j \in 1..Len(rows) : i < j => C28_NotAfter(rows[i], rows[j], st)
       /\ \A a \in returned, b \in passing \ returned : C28_NotAfter(a, b, st)

----------------------------------------------------------------------------
(* cheapest / largest unit of a project *)

C29_SuperlativeTurn == turn > 0 /\ last.branch = "superlative"

C29_Mode == Val(_unit_intent(last.msg))

\* the id in the text, else the front of the remembered ids
C29_ProjectId ==
    LET Pick(ids, remembered) ==
            IF ids # <<>> THEN Some(Head(ids))
            ELSE IF remembered # <<>> THEN Some(Head(remembered))
            ELSE None
    IN Pick(_extract_ids(last.msg), last.early.last_project_ids)

C29_Resolved ==
    C29_ProjectId # None /\ \E j \in 1..Len(Projects) : Projects[j].id = Val(C29_ProjectId)

\* the units of the database that belong to the resolved project
C29_ProjectUnits == {Units[i] : i \in {j \in 1..Len(Units) : Units[j].project_id = Val(C29_ProjectId)}}

\* u is the answer for the mode among the units S
C29_Extreme(u, S, mode) ==
    IF mode = "largest_unit" THEN \A v \in S : v.area <= u.area
    ELSE \A v \in S : v.price >= u.price

\* areas and prices of sample units; 0 stands for a unit without the figure
C29_Figures == {0, 1, 2}

\* lists of up to three units, some without an area or a price, some tying
C29_UnitLists ==
    LET Unit(i, a, p) ==
            [id |-> i] @@ (IF a = 0 THEN EmptyPatch ELSE ("area" :> a))
                       @@ (IF p = 0 THEN EmptyPatch ELSE ("price" :> p))
        Of(n) == {[i \in 1..n |-> Unit(i, f[i][1], f[i][2])] :
                    f \in [1..n -> C29_Figures \X C29_Figures]}
    IN UNION {Of(n) : n \in 0..3}

\* _pick_unit answers with the first unit of the list that has the figure and
\* the extreme value among the units that have it, and with nothing when no
\* unit has the figure
C29_PicksFirstExtreme(units, mode) ==
    LET figure == IF mode = "largest_unit" THEN "area" ELSE "price"
        have == {i \in 1..Len(units) : figure \in DOMAIN units[i]}
        Better(i, j) == IF mode = "largest_unit" THEN units[i].area > units[j].area
                        ELSE units[i].price < units[j].price
        picked == _pick_unit(units, mode)
    IN IF have = {} THEN picked = None
       ELSE \E i \in have :
               /\ picked = Some(units[i])
               /\ \A j \in have : j < i => Better(i, j)
               /\ \A j \in have : j > i => ~Better(j, i)

\* C29: a superlative turn takes its project from the id in the text, else from
\* the front of last_project_ids.  Without a project it asks for one and leaves
\* last_project_ids and last_results as they were; with one it answers with the
\* unit of that project that has the lowest price (cheapest) or the largest area
\* (largest) among the units that have the figure, the first one of the list on
\* a tie.
C29_SuperlativeAnswer ==
    /\ \A units \in C29_UnitLists, mode \in {"cheapest_unit", "largest_unit"} :
           C29_PicksFirstExtreme(units, mode)
    /\ C29_SuperlativeTurn =>
          IF ~C29_Resolved
          THEN /\ last.reply.kind \in {"which_project", "project_not_found"}
               /\ state.last_project_ids = last.before.last_project_ids
               /\ state.last_results = last.before.last_results
          ELSE /\ last.reply.kind = C29_Mode
               /\ last.reply.n = Val(C29_ProjectId)
               /\ Len(last.reply.options) = 1
               /\ last.reply.options[1] \in C29_ProjectUnits
               /\ C29_Extreme(last.reply.options[1], C29_ProjectUnits, C29_Mode)

\* the largest unit of the project at the front of the memory, which is not the
\* first unit of its list, was the answer of a turn without an id in the text
C29_Witness ==
    /\ C29_SuperlativeTurn /\ C29_Resolved
    /\ _extract_ids(last.msg) = <<>>
    /\ C29_Mode = "largest_unit"
    /\ last.reply.options[1].id = 4
    /\ state.last_project_ids = <<7>>

\* a superlative question with no id in the text and an empty memory was
\* answered by asking for the project
C29_WitnessAsk ==
    /\ C29_SuperlativeTurn /\ C29_ProjectId = None
    /\ last.reply.kind = "which_project"

----------------------------------------------------------------------------
(* budgets *)

\* the budget b, when present, is not negative
C25_NonNegative(b) == b # None => Val(b) >= 0

\* C25: in every conversation state of either service, budget_min and
\* budget_max, when present, are non-negative.
C25_BudgetsNonNegative ==
    /\ C25_NonNegative(Get(state, "budget_min")) /\ C25_NonNegative(Get(state, "budget_max"))
    /\ C25_NonNegative(rag_state.budget_min) /\ C25_NonNegative(rag_state.budget_max)

----------------------------------------------------------------------------
(* the rule-based intent classifier *)

C26_RestartTrigger(m) ==
    \/ ContainsAny(m, {"restart", "reset"})
    \/ HasAnyPhrase(m, {<<"start", "over">>, <<"new", "search">>, <<"from", "scratch">>,
                        <<"begin", "again">>})

C26_ConfirmRule(m) ==
    _is_confirm_intent(m) \/ m \in {<<W("confirm")>>, <<W("yes")>>, <<W("ok")>>, <<W("okay")>>}

\* the first seven rules, in the order of the cascade: <<rule fires, intent>>
C26_Cascade(m) ==
    << <<C26_RestartTrigger(m), "RESTART">>,
       <<_is_comparison_intent(m), "COMPARE">>,
       <<C26_ConfirmRule(m), "CONFIRM_CHOICE">>,
       <<_is_details_intent(m), "SHOW_DETAILS">>,
       <<_is_filter_intent(m), "FILTER_RESULTS">>,
       <<_is_sort_intent(m), "SORT_RESULTS">>,
       <<_is_navigation_intent(m), "NAVIGATE">> >>

C26_LaterIntents == {"REFINE_SEARCH", "SHOW_RESULTS", "PROVIDE_PREFERENCES"}

\* r is what the classifier returns for m: the intent of the first rule that
\* fires, an intent that exists; one of the later rules' intents, or nothing,
\* only when none of the first seven fires
C26_FirstMatch(m, r) ==
    LET c == C26_Cascade(m)
        fired == {k \in 1..Len(c) : c[k][1]}
    IN /\ r # None => Val(r) \in IntentMembers
       /\ fired # {} => r = Some(c[SetMin(fired)][2])
       /\ fired = {} => (r = None \/ Val(r) \in C26_LaterIntents)

\* C26: for the message of every turn the rule-based classifier returns the
\* intent of the first rule that matches, in the order restart, compare,
\* confirm/select, show-details, filter-results, sort-results, navigate,
\* refine-search, show-results, provide-preferences ('compare option 1 and 3'
\* is COMPARE), and no intent only when no rule fires.
C26_FirstRuleWins ==
    turn > 0 => C26_FirstMatch(last.msg, detect_intent_rules(last.msg))

----------------------------------------------------------------------------
(* the classifier's allow-lists *)

\* C27: whatever JSON object the classifier returns, the intent that the router
\* passes on is in the intent allow-list, a value outside it becoming
\* general_question, which llm_detect_intent maps to unknown, and every
\* missing-slot name that the router returns is in the slot allow-list.
C27_AllowListed ==
    \A data \in RawResults :
        /\ route(data).intent \in AllowedIntents
        /\ (data.intent # None /\ Val(data.intent) \notin AllowedIntents) =>
               route(data).intent = "general_question"
        /\ \A i \in 1..Len(route(data).missing_slots) :
               route(data).missing_slots[i] \in AllowedSlots
        /\ (turn > 0 /\ last.llm /\ route(data).intent = "general_question") =>
               LET r == llm_detect_intent(last.msg, last.early, route(data))
               IN ~r.fault /\ r.intent = "unknown"

\* the router's part of C27: the intent and the missing slots that route
\* returns are in the allow-lists
C27_RouterGuards ==
    \A data \in RawResults :
        /\ route(data).intent \in AllowedIntents
        /\ (data.intent # None /\ Val(data.intent) \notin AllowedIntents) =>
               route(data).intent = "general_question"
        /\ \A i \in 1..Len(route(data).missing_slots) :
               route(data).missing_slots[i] \in AllowedSlots

\* two requests that each completed one turn on the same conversation, neither
\* of them a reset
C21_BothTurnsDone ==
    /\ reqs[1].pc = "idle" /\ reqs[2].pc = "idle"
    /\ reqs[1].n = 1 /\ reqs[2].n = 1
    /\ reqs[1].conv = reqs[2].conv
    /\ \A r \in ReqIds : ~Contains(reqs[r].msg, "reset")

\* the keys only the message of request r sets
C21_OwnKeys(r, other) ==
    {k \in (DOMAIN EarlyPatch(reqs[r].msg) \cap DOMAIN DEFAULT_STATE)
              \ DOMAIN EarlyPatch(reqs[other].msg) :
        EarlyPatch(reqs[r].msg)[k] # DEFAULT_STATE[k]}

\* C21: when two requests on the same conversation id have both completed
\* their turn, the stored state holds what each of them merged: the keys only
\* one message sets hold that message's values, whatever the interleaving.
C21_BothPatchesKept ==
    C21_BothTurnsDone =>
        \A r \in ReqIds : \A k \in C21_OwnKeys(r, 3 - r) :
            convs[reqs[r].conv][k] = EarlyPatch(reqs[r].msg)[k]

\* the two turns ran one after the other and the state holds both patches
C21_SequentialKept ==
    /\ C21_BothTurnsDone
    /\ C21_OwnKeys(1, 2) # {} /\ C21_OwnKeys(2, 1) # {}
    /\ \A r \in ReqIds : \A k \in C21_OwnKeys(r, 3 - r) :
           convs[reqs[r].conv][k] = EarlyPatch(reqs[r].msg)[k]

\* every turn changes the rows of the conversation it runs on, only
C22_OnlyOwnRow ==
    \A c \in DOMAIN convs :
        convs'[c] # convs[c] =>
            \E r \in ReqIds : /\ reqs[r].pc # "idle"
                              /\ reqs[r].conv = c
                              /\ reqs'[r] # reqs[r]

\* a row a step adds holds the default state, and the request that added it
\* works on that state
C22_NewRowIsDefault ==
    \A c \in DOMAIN convs' \ DOMAIN convs :
        /\ convs'[c] = DEFAULT_STATE
        /\ \A r \in ReqIds : reqs'[r] # reqs[r] => reqs'[r].copy = DEFAULT_STATE

\* C22: conversations with different ids do not interact: a step of a turn on
\* one conversation leaves the state of every other conversation as it was, and
\* a new conversation starts from the default state whatever the others hold.
C22_ConversationsIndependent == [][C22_OnlyOwnRow /\ C22_NewRowIsDefault]_vars

\* a second conversation was created while the first holds stated values; its
\* turn has stored its own value, and the first conversation still holds what
\* its own turn left
C22_Witness ==
    /\ Len(convs) = 2
    /\ reqs[1].conv = 1 /\ reqs[1].pc = "idle" /\ reqs[1].n = 1
    /\ reqs[2].conv = 2 /\ reqs[2].pc = "merged"
    /\ convs[1] = reqs[1].copy
    /\ convs[1].unit_type # None /\ convs[2].unit_type = None
    /\ convs[2].location # None /\ convs[1].location = None

----------------------------------------------------------------------------
(* area refinements *)

C31_Smaller == turn > 0 /\ last.msg \in {<<W("smaller")>>, <<W("less"), W("space")>>}

\* the minimum plausible area of the refinement, 30 square metres
C31_Floor == Sqm(30)

\* an area_min the refinement leaves in force is at or above the floor
C31_NeverBelowFloor ==
    (C31_Smaller /\ last.branch = "refine" /\ state.area_min # None) =>
        Val(state.area_min) >= C31_Floor

\* C31: a "smaller" refinement of a conversation that has an area_min leaves an
\* area_min in force that is at or above the minimum plausible area; the lower
\* bound is not removed when the step would cross the floor.
C31_FloorRefused ==
    (C31_Smaller /\ Truthy(last.early.area_min)) =>
        /\ state.area_min # None
        /\ Val(state.area_min) >= C31_Floor

\* "smaller" on an area_min of 35 square metres has removed the lower bound
C31_BoundRemoved ==
    /\ C31_Smaller /\ last.branch = "refine"
    /\ last.early.area_min = Some(Sqm(35)) /\ state.area_min = None

----------------------------------------------------------------------------
(* comparison turns *)

\* the preference slots
C32_PreferenceSlots ==
    {"location", "budget_min", "budget_max", "area_min", "area_max", "unit_type"}

\* the last turn handled a message recognised as a comparison
C32_ComparisonTurn == turn > 0 /\ last.branch = "compare" /\ _is_compare(last.msg)

\* C32: a comparison turn changes no preference slot: location, budget_min,
\* budget_max, area_min, area_max and unit_type have after the turn the values
\* they had before it.
C32_ComparisonKeepsSlots ==
    C32_ComparisonTurn => \A k \in C32_PreferenceSlots : state[k] = last.before[k]

\* "between 1 and 3" after a search was answered as a comparison of the first
\* and third result, and its numbers were stored as budget and area bounds
C32_NumbersStoredAsFilters ==
    /\ C32_ComparisonTurn
    /\ last.msg = <<W("between"), N(1), W("and"), N(3)>>
    /\ last.before.budget_max = Some(5000000)
    /\ state.budget_min = Some(1) /\ state.budget_max = Some(3)
    /\ state.area_min = Some(Sqm(1)) /\ state.area_max = Some(Sqm(3))

\* a comparison by option numbers written with "compare" keeps every slot
C32_CompareByNumberKeeps ==
    /\ C32_ComparisonTurn
    /\ last.msg = <<W("compare"), N(1), W("and"), N(2)>>
    /\ last.before.budget_max = Some(5000000)
    /\ \A k \in C32_PreferenceSlots : state[k] = last.before[k]

----------------------------------------------------------------------------
(* slot filling *)

\* the extractor recognises in m a value for the slot s
C33_Supplies(m, s) ==
    s \in DOMAIN extract_state_patch(m) /\ extract_state_patch(m)[s] # None

\* the reply r is the question for the first missing slot of st or, when none
\* is missing, the search
C33_NextStep(r, st) ==
    /\ ~r.fault
    /\ IF compute_missing_questions(st) # <<>>
       THEN r.reply.kind = "question" /\ r.reply.slot = compute_missing_questions(st)[1]
       ELSE r.searched

\* C33: whenever the previous reply was a missing-slot question and the message
\* supplies a value the extractor recognises for that slot, the reply of the
\* turn is the question for the next missing required slot or, when none is
\* missing, the search.
C33_SlotFillingProgress ==
    [][\A s \in {"location", "budget_max", "unit_type"} :
           (/\ last.reply.kind = "question" /\ last.reply.slot = s
            /\ turn' = turn + 1
            /\ C33_Supplies(last'.msg, s))
           => C33_NextStep(last', state')]_vars

\* the bare amount that answers the budget question is read as the choice of
\* option 5000000
C33_AmountReadAsOption ==
    /\ turn > 0 /\ last.msg = <<N(5000000)>>
    /\ compute_missing_questions(last.before) # <<>>
    /\ compute_missing_questions(last.before)[1] = "budget_max"
    /\ state.budget_max = Some(5000000)
    /\ last.branch = "selection" /\ last.reply.kind = "choose_between"

\* the amount "5M" that answers the budget question ends in a fault
C33_AmountFaults ==
    /\ turn > 0 /\ last.msg = <<M(5)>>
    /\ compute_missing_questions(last.before) # <<>>
    /\ compute_missing_questions(last.before)[1] = "budget_max"
    /\ last.fault

\* three answers in the forms the refinement step reads reach the search
C33_SearchAfterThreeAnswers ==
    /\ turn = 3 /\ last.searched /\ ~last.fault
    /\ last.before.unit_type = None /\ state.budget_max = Some(5000000)

----------------------------------------------------------------------------
(* the messages the orchestrator reads back *)

\* the log the turn read: the messages before it and its own user message
C34_Log == Append(rag_last.msgsBefore, UserMessage)

\* the most recent limit messages of a log
C34_MostRecent(msgs, limit) ==
    SubSeq(msgs, Max2(1, Len(msgs) - limit + 1), Len(msgs))

\* the latest assistant message of a log is a follow-up question whose slot the
\* message m answers
C34_AnswersLatestQuestion(msgs, m) ==
    LET assistants == {i \in 1..Len(msgs) : msgs[i].role = "assistant"}
        Asks(a) == /\ a.intent = "follow_up" /\ a.missing # <<>>
                   /\ _extract_slot_value(a.missing[1], m) # None
    IN assistants # {} /\ Asks(msgs[CHOOSE i \in assistants : \A j \in assistants : j <= i])

\* C34: get_last_messages returns the most recent messages of the conversation,
\* so for a conversation of any length a turn is handled in follow-up answer
\* mode exactly when the latest assistant message is a follow-up question that
\* the message answers.
C34_FollowUpOnLatestQuestion ==
    rag_last.mode # "none" =>
        /\ get_last_messages(C34_Log, 10) = C34_MostRecent(C34_Log, 10)
        /\ rag_last.mode = "follow_up" <=> C34_AnswersLatestQuestion(C34_Log, rag_last.msg)

\* in a log of more than ten messages the latest question asks for the unit
\* type and "villa" answers it, but the turn was handled as a new statement
C34_LatestQuestionMissed ==
    /\ Len(C34_Log) > 10
    /\ rag_last.msg = <<W("villa")>>
    /\ C34_AnswersLatestQuestion(C34_Log, rag_last.msg)
    /\ rag_last.mode = "normal"

\* in a log of at most ten messages the answer to the latest question is
\* handled in follow-up answer mode
C34_ShortLogFollowsUp ==
    /\ Len(C34_Log) \in 3..10
    /\ C34_AnswersLatestQuestion(C34_Log, rag_last.msg)
    /\ rag_last.mode = "follow_up"

----------------------------------------------------------------------------
(* faults of the ChatOrchestrator *)

----------------------------------------------------------------------------
(* ranges *)

\* min <= max in a patch of a range parser (None when no range is read)
C36_Ordered(p, lo, hi) == p # None => Val(Val(p)[lo]) <= Val(Val(p)[hi])

\* every patch the range parsers produce from the last message has min <= max
C36_RangesOrdered ==
    turn > 0 => /\ C36_Ordered(_parse_budget_range(last.msg), "budget_min", "budget_max")
                /\ C36_Ordered(_parse_area_range(last.msg), "area_min", "area_max")

\* C36: for every pair of amounts A and B the range parsers return the same
\* patch for the range written "A .. B" and written "B .. A", the lower amount
\* as the minimum and the higher as the maximum.
C36_RangeSymmetric ==
    /\ C36_RangesOrdered
    /\ \A form \in RangeForms :
          /\ \A a, b \in RangeAmounts :
                 last.msg = RangeMessage(form, a, b) =>
                     /\ _parse_budget_range(RangeMessage(form, a, b))
                            = _parse_budget_range(RangeMessage(form, b, a))
                     /\ _parse_area_range(RangeMessage(form, a, b))
                            = _parse_area_range(RangeMessage(form, b, a))
          /\ \A a, b \in RangeAreas :
                 last.msg = AreaRangeMessage(form, a, b) =>
                     _parse_area_range(AreaRangeMessage(form, a, b))
                         = _parse_area_range(AreaRangeMessage(form, b, a))

\* "between 5m and 3" was stored with a minimum of 3, while "between 3 and 5m"
\* gives a minimum of 3,000,000
C36_SuffixNotInherited ==
    /\ turn > 0 /\ last.msg = RangeMessage("between", M(5), N(3))
    /\ last.early.budget_min = Some(3) /\ last.early.budget_max = Some(5000000)
    /\ Val(_parse_budget_range(RangeMessage("between", N(3), M(5)))).budget_min = Some(3000000)

\* the areas of a range written in descending order were stored in ascending
\* order
C36_AreasSwapped ==
    /\ turn > 0 /\ last.msg = AreaRangeMessage("between", N(150), N(100))
    /\ last.early.area_min = Some(Sqm(100)) /\ last.early.area_max = Some(Sqm(150))

----------------------------------------------------------------------------
(* the confirmation *)

\* the last turn selected one of the stored results
C37_SuccessfulSelection == last.branch = "selection" /\ last.selected # None

\* C37: at the end of every turn confirmed is true and chosen_option is set
\* exactly when the turn was a successful selection, and then chosen_option is
\* one of last_results; after any other turn confirmed is false and
\* chosen_option is null.
C37_ConfirmedExactlyOnSelection ==
    turn > 0 =>
        IF C37_SuccessfulSelection
        THEN /\ state.confirmed = Some(TRUE)
             /\ state.chosen_option # None
             /\ \E i \in 1..Len(state.last_results) :
                    state.last_results[i] = Val(state.chosen_option)
        ELSE /\ state.confirmed = Some(FALSE)
             /\ state.chosen_option = None

\* a turn that is no selection, after a confirmed choice, has withdrawn the
\* confirmation and the chosen option
C37_Witness ==
    /\ turn > 0 /\ ~C37_SuccessfulSelection
    /\ last.before.confirmed = Some(TRUE) /\ last.before.chosen_option # None
    /\ state.confirmed = Some(FALSE) /\ state.chosen_option = None

----------------------------------------------------------------------------
(* feature flags *)

\* C38: the feature flags stored after a turn are exactly the flags extracted
\* from the message of that turn: the map of earlier turns is replaced, and a
\* turn that mentions no feature leaves an empty map.
C38_FeaturesOfThisTurn ==
    turn > 0 => /\ "features" \in DOMAIN state
                /\ state.features = Some(_parse_unit_features(last.msg))

\* a turn that mentions the terrace, after a turn that stored the balcony, has
\* left the terrace alone
C38_Witness ==
    /\ turn > 0
    /\ "features" \in DOMAIN last.before
    /\ last.before.features = Some({<<"has_balcony", "true">>})
    /\ last.msg = <<W("terrace")>>
    /\ state.features = Some({<<"has_terrace", "true">>})

\* a turn that mentions no feature, after a turn that stored one, has left an
\* empty map
C38_WitnessEmpty ==
    /\ turn > 0
    /\ "features" \in DOMAIN last.before
    /\ last.before.features # Some({})
    /\ _parse_unit_features(last.msg) = {}
    /\ state.features = Some({})

----------------------------------------------------------------------------
(* StateManager.merge_state *)

\* C39: StateManager.merge_state never clears a field: a field that holds a
\* value never returns to None in the ChatOrchestrator flow, whatever the turns
\* that follow carry for it; it is left as it is or overwritten by a value
\* that is not None (the classifier's empty string included).
C39_NeverBackToNone ==
    [][\A k \in RagFields : rag_state[k] # None => rag_state'[k] # None]_vars

\* C39 as stated: a slot, once set, never returns to empty, where empty is
\* what the orchestrator counts as missing (None or the empty string)
C39_NeverBackToEmpty ==
    [][\A k \in RagFields :
           ~is_missing(k, rag_state[k]) => ~is_missing(k, rag_state'[k])]_vars

\* a turn whose update carries no location has kept the stored one, and has
\* stored the unit type that it carries
C39_Witness ==
    /\ rag_last.mode = "follow_up" /\ ~rag_last.fault
    /\ rag_last.before.location_area # None
    /\ rag_last.before.unit_type = None
    /\ rag_state.location_area = rag_last.before.location_area
    /\ rag_state.unit_type # None

\* a turn whose classifier returned the empty string for the location has
\* overwritten the stored location, and the slot is missing again
C39_EmptyStringStored ==
    /\ ~rag_last.fault
    /\ rag_last.before.location_area = Some("New Cairo")
    /\ rag_state.location_area = Some("")
    /\ _compute_missing_slots_from_state(rag_state)[1] = "location_area"

----------------------------------------------------------------------------
(* compare_projects *)

\* the summary with the name n in a comparison result
C40_Summary(res, n) ==
    res.summaries[CHOOSE i \in 1..Len(res.summaries) : res.summaries[i].name = n]

\* the summaries of res that have the figure f
C40_With(res, f) == SelectSeq(res.summaries, LAMBDA s : s[f] # None)

\* the statement d about the figure f names two distinct projects and the
\* first has the strictly lower (Lower) or the strictly higher figure
C40_Strict(res, d, f, Lower) ==
    /\ d.a # d.b
    /\ C40_Summary(res, d.a)[f] # None /\ C40_Summary(res, d.b)[f] # None
    /\ IF Lower THEN Val(C40_Summary(res, d.a)[f]) < Val(C40_Summary(res, d.b)[f])
                ELSE Val(C40_Summary(res, d.a)[f]) > Val(C40_Summary(res, d.b)[f])

\* the figures f of the summaries that have one are all the same
C40_Tie(res, f) ==
    \A i, j \in 1..Len(C40_With(res, f)) : C40_With(res, f)[i][f] = C40_With(res, f)[j][f]

\* a winner is named for the figure f exactly when two projects or more have
\* the figure and the figures do not tie, and then the statement is truthful
C40_Statement(res, d, f, Lower) ==
    IF Len(C40_With(res, f)) < 2 \/ C40_Tie(res, f)
    THEN d.a = <<>> /\ d.b = <<>>
    ELSE C40_Strict(res, d, f, Lower)

C40_Truthful(res) ==
    /\ C40_Statement(res, res.differences["price"], "min_price", TRUE)
    /\ C40_Statement(res, res.differences["unit_sizes"], "max_area", FALSE)
    /\ "variety" \in DOMAIN res.differences =>
         IF \A i, j \in 1..Len(res.summaries) :
                res.summaries[i].unit_types_count = res.summaries[j].unit_types_count
         THEN res.differences["variety"].a = <<>>
         ELSE /\ res.differences["variety"].a # res.differences["variety"].b
              /\ C40_Summary(res, res.differences["variety"].a).unit_types_count >
                 C40_Summary(res, res.differences["variety"].b).unit_types_count

\* C40: in every comparison result each difference statement names two
\* distinct projects and is truthful (strictly lower minimum price, strictly
\* larger maximum unit size, strictly more unit options), and no winner is
\* named when the figures tie or fewer than two projects have the figure.
C40_DifferencesTruthful ==
    last.result # None => C40_Truthful(Val(last.result))

\* the statements are truthful whenever the figures of the projects that have
\* them are not all the same, and fewer than two projects with prices give
\* the statement that names no project
C40_TruthfulWithoutTies ==
    last.result # None =>
        /\ ~C40_Tie(Val(last.result), "min_price") =>
               C40_Statement(Val(last.result), Val(last.result).differences["price"],
                             "min_price", TRUE)
        /\ ~C40_Tie(Val(last.result), "max_area") =>
               C40_Statement(Val(last.result), Val(last.result).differences["unit_sizes"],
                             "max_area", FALSE)
        /\ Len(C40_With(Val(last.result), "min_price")) < 2 =>
               Val(last.result).differences["price"] = NoNames("not_enough_pricing_data")

\* two projects with the same minimum price: the same project is named as
\* the cheaper one and as the one with the higher entry price
C40_TieNamesOneProjectTwice ==
    /\ last.result # None
    /\ Len(last.projects) = 2
    /\ Val(last.result).summaries[1].min_price = Some(3000000)
    /\ Val(last.result).summaries[2].min_price = Some(3000000)
    /\ Val(last.result).differences["price"].text = "starts_cheaper"
    /\ Val(last.result).differences["price"].a = Val(last.result).differences["price"].b

\* three projects of which two have a price, and the prices differ
C40_WinnerNamed ==
    /\ last.result # None
    /\ Len(last.projects) = 3
    /\ Len(C40_With(Val(last.result), "min_price")) = 2
    /\ C40_Strict(Val(last.result), Val(last.result).differences["price"], "min_price", TRUE)

\* the comparison turn of the chat handler on the projects alpha and gamma,
\* which list two unit types each: the statement about variety names alpha
\* twice
C40_HandlerNamesOneProjectTwice ==
    /\ turn > 0 /\ last.reply.kind = "compare_summary"
    /\ compare_projects(last.reply.options).differences["variety"].a =
       compare_projects(last.reply.options).differences["variety"].b

====
